---- MODULE Spec2Model ----
(***************************************************************************)
(* Verification model of rcsb-molstar: the preset helper                   *)
(* (determineAssemblyId with its nested equals / parseOperatorList, and    *)
(* RcsbPreset.apply with its host requests), the range expansion used by   *)
(* the viewer, Viewer.loadPdbId / loadPdbIds, the structure motif search   *)
(* submission (SubmitControls.submitSearch) and the export helper's        *)
(* getDecorator.  Each part is a specification of its own over the shared  *)
(* variable list; the parts a specification does not exercise stay idle.   *)
(*                                                                         *)
(* JavaScript strings are sequences of one-character strings, so that      *)
(* split / indexOf / substring / parseInt / trim are computed character by *)
(* character.  The JavaScript value undefined is the one-element sequence  *)
(* Undef, which no character sequence equals.                              *)
(***************************************************************************)
EXTENDS Integers, Sequences, FiniteSets, TLC

VARIABLES
    \* ---- determineAssemblyId(traj, p) ----
    p0,        \* the motif preset as handed to the call (never changes)
    p,         \* the motif preset object, mutated by Object.assign
    traj,      \* the trajectory's pdbx_struct_assembly_gen table and its defects
    ids,       \* the [struct_oper_id, label_asym_id] combinations
    i,         \* row index of the scan loop
    pc,        \* position of the call
    threw,     \* an exception reached the catch block
    raised,    \* an exception left determineAssemblyId
    reads,     \* number of accesses to the metadata table (path, getField, rowCount, str)
    selected,  \* index of the row Object.assign took the assembly id from, -1 if none
    \* ---- parseOperatorList(value) / equals(expr, val) ----
    ast,       \* the operator expression as a list of groups of items
    bare,      \* the expression is written without parentheses
    value,     \* the operator expression string
    ret,       \* result of parseOperatorList(value)
    val,       \* the requested operator id of equals
    eq,        \* result of equals(value, val)
    ppc,       \* position of the parser harness
    \* ---- range expansion ----
    site,      \* which function expands the range
    hasData,   \* getLociFromRange found a structure with the model id
    begin,     \* first residue number
    end,       \* last residue number
    n,         \* loop variable of the expansion
    seq_id,    \* the expanded residue numbers
    rpc,       \* position of the expansion
    \* ---- RcsbPreset.apply(trajectory, params, plugin) ----
    frames,    \* the running apply calls, the innermost last
    requests,  \* the host requests issued so far, in issue order
    \* ---- Viewer.loadPdbId / Viewer.loadPdbIds ----
    entry,     \* the method called: "loadPdbId" or "loadPdbIds"
    args,      \* per requested id, what each model URL provider does with it
    arg,       \* index of the id being loaded
    provider,  \* index of the provider the loop is at
    loads,     \* the modelLoader.load calls started, as [id, provider]
    warnings,  \* the console.warn calls, as [id, provider]
    loaded,    \* the loads that succeeded, as [id, provider]
    resets,    \* number of resetCamera(0) calls
    lpc,       \* position of the call
    \* ---- SubmitControls.submitSearch ----
    history,   \* selection.additionsHistory
    pdbId,     \* the Set of entry ids, in insertion order
    residueIds, \* the residue ids collected so far
    si,        \* loop index of submitSearch
    opened,    \* the queries handed to window.open
    logged,    \* the console.warn calls of submitSearch
    spc,       \* position of the call
    \* ---- getDecorator(plugin, root) ----
    tree,      \* the state tree: parent and transformer kind of every node
    root,      \* the root the outermost call was given
    cur,       \* the root of the innermost call
    depth,     \* number of nested getDecorator calls
    decorator, \* what the outermost call returned
    gpc,       \* position of the call
    \* ---- the colour lookup of the prop-set branch ----
    representation, \* p.representation of the prop-set preset
    colors, \* structure.data.inheritedPropertyData.colors, as [chains, entries]
    ri, \* index of the representation the loop is at
    ti, \* index of the target the inner loop is at
    cpc, \* position of the lookup construction
    \* ---- the feature branch of RcsbPreset.apply ----
    feature, \* the feature preset: kind, assemblyId and target
    featureLoci, \* what targetToLoci resolved, as the residues of the loci
    chainMode, \* whether the target is taken to name a whole chain
    focusTarget, \* the loci chosen for both focus calls
    structureFocus, \* the argument of focus.setFromLoci
    cameraFocus, \* the argument of camera.focusLoci
    fpc, \* position of the feature branch
    \* ---- initVolumeStreaming(plugin, structure, props) ----
    vstructure, \* the structure object: whether its cell has a parent
    hasVolumeRoot, \* whether the subtree of the structure holds a node tagged VolumeStreaming.RootTag
    applied, \* number of applications of the InitVolumeStreaming action
    streaming, \* the volume-streaming node: radius override and hidden channels
    collapsed, \* ViewerState(plugin).collapsed.value
    vprops, \* the props argument of the running call
    rootAtCall, \* hasVolumeRoot as the running call found it
    collapsed0, \* the collapsed state when the running call began
    vcalls, \* number of calls that have returned
    vpc, \* position of the running call
    \* ---- Viewer.select and Viewer.clearSelection ----
    selection, \* the structure selection, as elements [structure, chain, residue]
    highlights, \* the highlighted elements
    scall, \* the Viewer call that ran last
    sel0, \* the selection before that call
    sops, \* the manager calls that call made, in order
    scount, \* number of Viewer calls made
    \* ---- SubmitControls: the exchanges panels ----
    action, \* SubmitControls.state.action
    isBusy, \* SubmitControls.state.isBusy
    additions, \* selection.additionsHistory, as entry ids
    handler, \* the handler of SubmitControls that ran last
    handler0, \* the handler that ran before it
    action0, \* state.action before the last handler
    action00, \* state.action before the handler before it
    ecalls, \* what the last handler called, in order
    \* ---- encodeStructureData(plugin) ----
    cells, \* the root structure cells of the state, as the entry id of each
    extracted, \* what extractStructureDataFromState has put into content, as entries [key, value]
    archive, \* what encodeStructureData has put into content, as entries [key, value]
    xi, \* loop index of the running loop
    xpc  \* position of encodeStructureData

asmVars == <<p0, p, traj, ids, i, pc, threw, raised, reads, selected>>
parseVars == <<ast, bare, value, ret, val, eq, ppc>>
rangeVars == <<site, hasData, begin, end, n, seq_id, rpc>>
applyVars == <<frames, requests>>
loadVars == <<entry, args, arg, provider, loads, warnings, loaded, resets, lpc>>
searchVars == <<history, pdbId, residueIds, si, opened, logged, spc>>
treeVars == <<tree, root, cur, depth, decorator, gpc>>
coreVars == <<asmVars, parseVars, rangeVars>>
\* ---- further variable groups ----
colorVars == <<representation, colors, ri, ti, cpc>>
focusVars == <<feature, featureLoci, chainMode, focusTarget, structureFocus, cameraFocus, fpc>>
volumeVars == <<vstructure, hasVolumeRoot, applied, streaming, collapsed, vprops, rootAtCall, collapsed0, vcalls, vpc>>
selectVars == <<selection, highlights, scall, sel0, sops, scount>>
exchangeVars == <<action, isBusy, additions, handler, handler0, action0, action00, ecalls>>
exportVars == <<cells, extracted, archive, xi, xpc>>
moreVars == <<colorVars, focusVars, volumeVars, selectVars, exchangeVars, exportVars>>
notColor == <<coreVars, applyVars, loadVars, searchVars, treeVars, focusVars, volumeVars, selectVars, exchangeVars, exportVars>>
notFocus == <<coreVars, applyVars, loadVars, searchVars, treeVars, colorVars, volumeVars, selectVars, exchangeVars, exportVars>>
notVolume == <<coreVars, applyVars, loadVars, searchVars, treeVars, colorVars, focusVars, selectVars, exchangeVars, exportVars>>
notSelect == <<coreVars, applyVars, loadVars, searchVars, treeVars, colorVars, focusVars, volumeVars, exchangeVars, exportVars>>
notExchange == <<coreVars, applyVars, loadVars, searchVars, treeVars, colorVars, focusVars, volumeVars, selectVars, exportVars>>
notExport == <<coreVars, applyVars, loadVars, searchVars, treeVars, colorVars, focusVars, volumeVars, selectVars, exchangeVars>>
\* ---- end of variable groups ----
extVars == <<applyVars, loadVars, searchVars, treeVars, moreVars>>
notApply == <<coreVars, loadVars, searchVars, treeVars, moreVars>>
notLoad == <<coreVars, applyVars, searchVars, treeVars, moreVars>>
notSearch == <<coreVars, applyVars, loadVars, treeVars, moreVars>>
notTree == <<coreVars, applyVars, loadVars, searchVars, moreVars>>
vars == <<asmVars, parseVars, rangeVars, extVars>>

\* ------------------------------------------------------------------------
\* JavaScript values and string primitives
\* ------------------------------------------------------------------------

Undef == <<"undefined">>

\* String(v): what a string method makes of its argument.
ToStr(v) == IF v = Undef THEN <<"u", "n", "d", "e", "f", "i", "n", "e", "d">> ELSE v

\* v is falsy for a string-or-undefined v.
Falsy(v) == v = Undef \/ v = <<>>

IsWhite(c) == c \in {" "}
IsDigit(c) == c \in {"0", "1", "2", "3", "4", "5", "6", "7", "8", "9"}
DigitChars == <<"0", "1", "2", "3", "4", "5", "6", "7", "8", "9">>
DigitVal(c) == (CHOOSE d \in 1..10 : DigitChars[d] = c) - 1

\* s.substring(from) for a 0-based from.
Rest(s, from) == SubSeq(s, from + 1, Len(s))

\* s.indexOf(c) for a single character c: 0-based, -1 if absent.
RECURSIVE IndexOfCharFrom(_, _, _)
IndexOfCharFrom(s, c, k) ==
    IF k > Len(s) THEN -1
    ELSE IF s[k] = c THEN k - 1
    ELSE IndexOfCharFrom(s, c, k + 1)
IndexOfChar(s, c) == IndexOfCharFrom(s, c, 1)

\* s.indexOf(sub) for a string sub: 0-based position of the first occurrence
\* of sub as a substring, -1 if there is none.
RECURSIVE StrIndexOfFrom(_, _, _)
StrIndexOfFrom(s, sub, k) ==
    IF k + Len(sub) - 1 > Len(s) THEN -1
    ELSE IF SubSeq(s, k, k + Len(sub) - 1) = sub THEN k - 1
    ELSE StrIndexOfFrom(s, sub, k + 1)
StrIndexOf(s, sub) == StrIndexOfFrom(s, ToStr(sub), 1)

\* array.indexOf(x) on an array of strings: 0-based, -1 if absent.
RECURSIVE ArrIndexOfFrom(_, _, _)
ArrIndexOfFrom(a, x, k) ==
    IF k > Len(a) THEN -1
    ELSE IF a[k] = x THEN k - 1
    ELSE ArrIndexOfFrom(a, x, k + 1)
ArrIndexOf(a, x) == ArrIndexOfFrom(a, x, 1)

\* s.split(sep) for a single-character separator.
RECURSIVE Split(_, _)
Split(s, sep) ==
    LET d == IndexOfChar(s, sep)
    IN  IF d = -1 THEN <<s>>
        ELSE <<SubSeq(s, 1, d)>> \o Split(Rest(s, d + 1), sep)

\* s.trim()
RECURSIVE TrimLeft(_)
TrimLeft(s) == IF s # <<>> /\ IsWhite(Head(s)) THEN TrimLeft(Tail(s)) ELSE s
RECURSIVE TrimRight(_)
TrimRight(s) ==
    IF s # <<>> /\ IsWhite(s[Len(s)]) THEN TrimRight(SubSeq(s, 1, Len(s) - 1)) ELSE s
Trim(s) == TrimRight(TrimLeft(s))

\* Numbers: an integer or NaN.
NaN == [nan |-> TRUE, num |-> 0]
Num(k) == [nan |-> FALSE, num |-> k]

\* Lte with NaN read as 0.
Lte_NaNIsZero(a, b) == (IF a.nan THEN 0 ELSE a.num) <= (IF b.nan THEN 0 ELSE b.num)

\* from <= to of JavaScript: false when either side is NaN.
Lte(a, b) == ~a.nan /\ ~b.nan /\ a.num <= b.num

\* parseInt(s): leading white space is skipped, an optional sign is read, then
\* the longest run of decimal digits; NaN when that run is empty.  (The radix
\* prefix 0x does not occur in the strings of this model.)
RECURSIVE DigitsValue(_, _)
DigitsValue(s, acc) ==
    IF s # <<>> /\ IsDigit(Head(s)) THEN DigitsValue(Tail(s), 10 * acc + DigitVal(Head(s)))
    ELSE acc
parseInt(s) ==
    LET t    == TrimLeft(s)
        neg  == t # <<>> /\ Head(t) = "-"
        body == IF t # <<>> /\ Head(t) \in {"-", "+"} THEN Tail(t) ELSE t
    IN  IF body = <<>> \/ ~IsDigit(Head(body)) THEN NaN
        ELSE Num(IF neg THEN 0 - DigitsValue(body, 0) ELSE DigitsValue(body, 0))

\* k.toString() for an integer k.
RECURSIVE NatToString(_)
NatToString(k) ==
    IF k < 10 THEN <<DigitChars[k + 1]>>
    ELSE NatToString(k \div 10) \o <<DigitChars[(k % 10) + 1]>>
IntToString(k) == IF k < 0 THEN <<"-">> \o NatToString(0 - k) ELSE NatToString(k)

\* ------------------------------------------------------------------------
\* parseOperatorList(value)
\* ------------------------------------------------------------------------

IsParen(c) == c \in {"(", ")"}

\* First position (1-based) after the run of [^()] characters that starts at k.
RECURSIVE RunEnd(_, _)
RunEnd(v, k) == IF k <= Len(v) /\ ~IsParen(v[k]) THEN RunEnd(v, k + 1) ELSE k

\* First position after the run of ']' characters that starts at k.
RECURSIVE SkipBrackets(_, _)
SkipBrackets(v, k) == IF k <= Len(v) /\ v[k] = "]" THEN SkipBrackets(v, k + 1) ELSE k

\* One attempt of /\(?([^()]+)\)?]*/ anchored at position s (1-based):
\* the optional "(" is taken when a [^()] character follows it.
MatchAt(v, s) ==
    LET a == IF v[s] = "(" THEN s + 1 ELSE s
    IN  IF a <= Len(v) /\ ~IsParen(v[a])
        THEN LET e  == RunEnd(v, a)
                 e2 == IF e <= Len(v) /\ v[e] = ")" THEN e + 1 ELSE e
             IN  [found |-> TRUE, group |-> SubSeq(v, a, e - 1),
                  lastIndex |-> SkipBrackets(v, e2) - 1]
        ELSE [found |-> FALSE, group |-> <<>>, lastIndex |-> 0]

\* oeRegex.exec(value) with the regex's lastIndex (0-based) at lastIndex.
RECURSIVE RegexExec(_, _)
RegexExec(v, lastIndex) ==
    IF lastIndex >= Len(v) THEN [found |-> FALSE, group |-> <<>>, lastIndex |-> 0]
    ELSE LET m == MatchAt(v, lastIndex + 1)
         IN  IF m.found THEN m ELSE RegexExec(v, lastIndex + 1)

\* while (g = oeRegex.exec(value)) groups[groups.length] = g[1];
RECURSIVE ExecLoop(_, _, _)
ExecLoop(v, lastIndex, groups) ==
    LET g == RegexExec(v, lastIndex)
    IN  IF g.found THEN ExecLoop(v, g.lastIndex, Append(groups, g.group)) ELSE groups

\* ExpandLoop with the condition i < to.
RECURSIVE ExpandLoop_Exclusive(_, _, _)
ExpandLoop_Exclusive(k, to, group) ==
    IF ~k.nan /\ ~to.nan /\ k.num < to.num
    THEN ExpandLoop_Exclusive(Num(k.num + 1), to, Append(group, IntToString(k.num)))
    ELSE group

\* for (let i = from; i <= to; i++) group[group.length] = i.toString();
RECURSIVE ExpandLoop(_, _, _)
ExpandLoop(k, to, group) ==
    IF Lte(k, to) THEN ExpandLoop(Num(k.num + 1), to, Append(group, IntToString(k.num)))
    ELSE group

\* The body of g.split(',').forEach(e => ...): the tokens e adds to group.
ParseItem(e, group) ==
    LET dashIndex == IndexOfChar(e, "-")
    IN  IF dashIndex > 0
        THEN ExpandLoop(parseInt(SubSeq(e, 1, dashIndex)), parseInt(Rest(e, dashIndex + 1)), group)
        ELSE Append(group, Trim(e))

RECURSIVE ParseItems(_, _)
ParseItems(es, group) ==
    IF es = <<>> THEN group ELSE ParseItems(Tail(es), ParseItem(Head(es), group))

ParseGroup(g) == ParseItems(Split(g, ","), <<>>)

parseOperatorList(v) ==
    LET groups == ExecLoop(v, 0, <<>>)
    IN  [k \in 1..Len(groups) |-> ParseGroup(groups[k])]

\* ------------------------------------------------------------------------
\* equals(expr, val)
\* ------------------------------------------------------------------------

Min(a, b) == IF a <= b THEN a ELSE b

\* for (i = 0, il = Math.min(list.length, split.length); i < il; i++)
\*     if (list[i].indexOf(split[i]) !== -1) matches++;
RECURSIVE CountMatches(_, _, _, _)
CountMatches(list, split, k, il) ==
    IF k >= il THEN 0
    ELSE (IF ArrIndexOf(list[k + 1], split[k + 1]) # -1 THEN 1 ELSE 0)
         + CountMatches(list, split, k + 1, il)

\* equals comparing the match count with il instead of split.length.
equals_CountsToMin(expr, v) ==
    LET list  == parseOperatorList(expr)
        split == Split(v, "x")
        il    == Min(Len(list), Len(split))
    IN  CountMatches(list, split, 0, il) = il

equals(expr, v) ==
    LET list  == parseOperatorList(expr)
        split == Split(v, "x")
    IN  CountMatches(list, split, 0, Min(Len(list), Len(split))) = Len(split)

\* ------------------------------------------------------------------------
\* Operator expressions handed to parseOperatorList and equals
\* ------------------------------------------------------------------------

\* Largest number of items (tokens and ranges) of an operator expression.
MaxItems == 3

\* A range bound as written in the expression: a decimal integer or a text
\* that is no number.
BoundOf(k, t) == [isNum |-> TRUE, num |-> k, txt |-> t]
NoBound == [isNum |-> FALSE, num |-> 0, txt |-> <<>>]
NotANumber == [isNum |-> FALSE, num |-> 0, txt |-> <<"a">>]
B1 == BoundOf(1, <<"1">>)
B5 == BoundOf(5, <<"5">>)
B9 == BoundOf(9, <<"9">>)
B11 == BoundOf(11, <<"1", "1">>)

Lit(t, padding) == [kind |-> "lit", txt |-> t, pad |-> padding, from |-> NoBound, to |-> NoBound]
Range(f, t) == [kind |-> "range", txt |-> <<>>, pad |-> 0, from |-> f, to |-> t]

Items ==
    { Lit(<<"X", "0">>, 0), Lit(<<"2">>, 1),
      Range(B1, B5), Range(B9, B11),
      Range(B5, B1), Range(NotANumber, B5), Range(B1, NotANumber) }

\* The expressions of exactly k items, each a list of groups of items.
RECURSIVE AstsOf(_)
AstsOf(k) ==
    IF k = 0 THEN { <<>> }
    ELSE LET prev == AstsOf(k - 1)
         IN  { Append(a, <<it>>) : a \in prev, it \in Items }
             \cup { [a EXCEPT ![Len(a)] = Append(@, it)] : a \in prev \ { <<>> }, it \in Items }

Asts == UNION { AstsOf(k) : k \in 0..MaxItems }

\* The text of an expression: items joined by "," inside a group, each group
\* in parentheses unless the expression is written bare.
Pad(k) == [j \in 1..k |-> " "]
RenderItem(it) ==
    IF it.kind = "lit" THEN Pad(it.pad) \o it.txt \o Pad(it.pad)
    ELSE it.from.txt \o <<"-">> \o it.to.txt
RECURSIVE RenderItems(_)
RenderItems(g) ==
    IF Len(g) = 1 THEN RenderItem(g[1])
    ELSE RenderItem(Head(g)) \o <<",">> \o RenderItems(Tail(g))
RECURSIVE Render(_, _)
Render(a, isBare) ==
    IF a = <<>> THEN <<>>
    ELSE (IF isBare THEN RenderItems(Head(a)) ELSE <<"(">> \o RenderItems(Head(a)) \o <<")">>)
         \o Render(Tail(a), isBare)

\* Requested operator ids of equals.
Vals ==
    { <<"1">>, <<"X", "0", "x", "3">>, <<"3", "x", "X", "0">>, <<"1", "x", "1">> }

\* ------------------------------------------------------------------------
\* Range expansion
\* ------------------------------------------------------------------------

\* Residue numbers run from MinPos to MaxPos.
MaxPos == 3
MinPos == 0 - 1

\* ------------------------------------------------------------------------
\* Idle values of the parts a specification does not exercise
\* ------------------------------------------------------------------------

AsmIdle ==
    /\ p0 = [assemblyId |-> Undef, targetsDefined |-> TRUE, targets |-> <<>>,
             kind |-> "motif", label |-> "", color |-> 0, modelIndex |-> 0]
    /\ p = p0
    /\ traj = [fault |-> [kind |-> "none", col |-> ""], rows |-> <<>>]
    /\ ids = <<>>
    /\ i = 0
    /\ pc = "idle"
    /\ threw = FALSE
    /\ raised = FALSE
    /\ reads = 0
    /\ selected = -1

ParseIdle ==
    /\ ast = <<>>
    /\ bare = FALSE
    /\ value = <<>>
    /\ ret = <<>>
    /\ val = <<>>
    /\ eq = FALSE
    /\ ppc = "idle"

RangeIdle ==
    /\ site = "none"
    /\ hasData = FALSE
    /\ begin = 0
    /\ end = 0
    /\ n = 0
    /\ seq_id = <<>>
    /\ rpc = "idle"

ApplyIdle ==
    /\ frames = <<>>
    /\ requests = <<>>

LoadIdle ==
    /\ entry = "none"
    /\ args = <<>>
    /\ arg = 0
    /\ provider = 0
    /\ loads = <<>>
    /\ warnings = <<>>
    /\ loaded = <<>>
    /\ resets = 0
    /\ lpc = "idle"

SearchIdle ==
    /\ history = <<>>
    /\ pdbId = <<>>
    /\ residueIds = <<>>
    /\ si = 0
    /\ opened = <<>>
    /\ logged = <<>>
    /\ spc = "idle"

TreeIdle ==
    /\ tree = [parent |-> <<>>, decorator |-> <<>>]
    /\ root = 0
    /\ cur = 0
    /\ depth = 0
    /\ decorator = 0
    /\ gpc = "idle"

ColorIdle ==
    /\ representation = <<>>
    /\ colors = [chains |-> {}, entries |-> {}]
    /\ ri = 0
    /\ ti = 0
    /\ cpc = "idle"

FocusIdle ==
    /\ feature = [kind |-> "feature", assemblyId |-> Undef, target |-> [label_asym_id |-> <<>>, auth_seq_id |-> <<>>, label_seq_id |-> <<>>, label_comp_id |-> <<>>]]
    /\ featureLoci = <<>>
    /\ chainMode = FALSE
    /\ focusTarget = <<>>
    /\ structureFocus = [set |-> FALSE, loci |-> <<>>]
    /\ cameraFocus = [set |-> FALSE, loci |-> <<>>]
    /\ fpc = "idle"

VolumeIdle ==
    /\ vstructure = [hasParent |-> FALSE]
    /\ hasVolumeRoot = FALSE
    /\ applied = 0
    /\ streaming = [radius |-> 0 - 1, hidden |-> {}]
    /\ collapsed = [k \in {"selection", "custom", "volume"} |-> TRUE]
    /\ vprops = [defined |-> FALSE, overrideRadius |-> 0 - 1, hiddenChannels |-> <<>>]
    /\ rootAtCall = FALSE
    /\ collapsed0 = collapsed
    /\ vcalls = 0
    /\ vpc = "off"

SelectIdle ==
    /\ selection = {}
    /\ highlights = {}
    /\ scall = [op |-> "none"]
    /\ sel0 = {}
    /\ sops = <<>>
    /\ scount = 0

ExchangeIdle ==
    /\ action = Undef
    /\ isBusy = FALSE
    /\ additions = <<>>
    /\ handler = [op |-> "none", idx |-> 0]
    /\ handler0 = [op |-> "none", idx |-> 0]
    /\ action0 = Undef
    /\ action00 = Undef
    /\ ecalls = <<>>

ExportIdle ==
    /\ cells = <<>>
    /\ extracted = <<>>
    /\ archive = <<>>
    /\ xi = 0
    /\ xpc = "off"

CoreIdle == AsmIdle /\ ParseIdle /\ RangeIdle
\* ---- further idle parts ----
MoreIdle == ColorIdle /\ FocusIdle /\ VolumeIdle /\ SelectIdle /\ ExchangeIdle /\ ExportIdle
RestColorIdle == CoreIdle /\ ApplyIdle /\ LoadIdle /\ SearchIdle /\ TreeIdle /\ FocusIdle /\ VolumeIdle /\ SelectIdle /\ ExchangeIdle /\ ExportIdle
RestFocusIdle == CoreIdle /\ ApplyIdle /\ LoadIdle /\ SearchIdle /\ TreeIdle /\ ColorIdle /\ VolumeIdle /\ SelectIdle /\ ExchangeIdle /\ ExportIdle
RestVolumeIdle == CoreIdle /\ ApplyIdle /\ LoadIdle /\ SearchIdle /\ TreeIdle /\ ColorIdle /\ FocusIdle /\ SelectIdle /\ ExchangeIdle /\ ExportIdle
RestSelectIdle == CoreIdle /\ ApplyIdle /\ LoadIdle /\ SearchIdle /\ TreeIdle /\ ColorIdle /\ FocusIdle /\ VolumeIdle /\ ExchangeIdle /\ ExportIdle
RestExchangeIdle == CoreIdle /\ ApplyIdle /\ LoadIdle /\ SearchIdle /\ TreeIdle /\ ColorIdle /\ FocusIdle /\ VolumeIdle /\ SelectIdle /\ ExportIdle
RestExportIdle == CoreIdle /\ ApplyIdle /\ LoadIdle /\ SearchIdle /\ TreeIdle /\ ColorIdle /\ FocusIdle /\ VolumeIdle /\ SelectIdle /\ ExchangeIdle
\* ---- end of idle parts ----
ExtIdle == ApplyIdle /\ LoadIdle /\ SearchIdle /\ TreeIdle /\ MoreIdle

\* ------------------------------------------------------------------------
\* The parser harness: parseOperatorList(value), then equals(value, val)
\* ------------------------------------------------------------------------

ParseInit ==
    /\ ast \in Asts
    /\ bare \in IF Len(ast) = 1 THEN BOOLEAN ELSE {FALSE}
    /\ value = Render(ast, bare)
    /\ ret = <<>>
    /\ val = <<>>
    /\ eq = FALSE
    /\ ppc = "start"

CallParseOperatorList ==
    /\ ppc = "start"
    /\ ret' = parseOperatorList(value)
    /\ ppc' = "parsed"
    /\ UNCHANGED <<ast, bare, value, val, eq>>
    /\ UNCHANGED <<asmVars, rangeVars, extVars>>

CallEquals ==
    /\ ppc = "parsed"
    /\ \E v \in Vals :
        /\ val' = v
        /\ eq' = equals(value, v)
    /\ ppc' = "compared"
    /\ UNCHANGED <<ast, bare, value, ret>>
    /\ UNCHANGED <<asmVars, rangeVars, extVars>>

InitParse == ParseInit /\ AsmIdle /\ RangeIdle /\ ExtIdle
NextParse == CallParseOperatorList \/ CallEquals
SpecParse == InitParse /\ [][NextParse]_vars

\* ------------------------------------------------------------------------
\* Range expansion: getLociFromRange, Viewer.createComponentFromRange, toRange
\* ------------------------------------------------------------------------

\* toRange(beg, end) of ./selection: the integers beg..end, empty if end < beg.
toRange(b, e) == IF e < b THEN <<>> ELSE [k \in 1..(e - b + 1) |-> b + k - 1]

\* LoopCond with the condition n < end.
LoopCond_Exclusive(k, e) == k < e

\* The loop condition  n <= end  of the two inline expansions.
LoopCond(k, e) == k <= e

Positions == MinPos..MaxPos

RangeInit ==
    /\ site \in {"getLociFromRange", "createComponentFromRange", "toRange"}
    /\ hasData \in IF site = "getLociFromRange" THEN BOOLEAN ELSE {TRUE}
    /\ begin \in Positions
    /\ end \in Positions
    /\ n = 0
    /\ seq_id = <<>>
    /\ rpc = "start"

\* getLociFromRange: if (data == null) return;
NoStructure ==
    /\ rpc = "start"
    /\ site = "getLociFromRange"
    /\ ~hasData
    /\ rpc' = "returned"
    /\ UNCHANGED <<site, hasData, begin, end, n, seq_id>>
    /\ UNCHANGED <<asmVars, parseVars, extVars>>

\* const seq_id = new Array<number>(); for (let n = begin; ...
LoopStart ==
    /\ rpc = "start"
    /\ site \in {"getLociFromRange", "createComponentFromRange"}
    /\ hasData
    /\ seq_id' = <<>>
    /\ n' = begin
    /\ rpc' = "loop"
    /\ UNCHANGED <<site, hasData, begin, end>>
    /\ UNCHANGED <<asmVars, parseVars, extVars>>

\* ...; n <= end; n++) seq_id.push(n);
LoopPush ==
    /\ rpc = "loop"
    /\ LoopCond(n, end)
    /\ seq_id' = Append(seq_id, n)
    /\ n' = n + 1
    /\ UNCHANGED <<site, hasData, begin, end, rpc>>
    /\ UNCHANGED <<asmVars, parseVars, extVars>>

LoopExit ==
    /\ rpc = "loop"
    /\ ~LoopCond(n, end)
    /\ rpc' = "expanded"
    /\ UNCHANGED <<site, hasData, begin, end, n, seq_id>>
    /\ UNCHANGED <<asmVars, parseVars, extVars>>

\* const residues = toRange(target.label_seq_range.beg, target.label_seq_range.end)
CallToRange ==
    /\ rpc = "start"
    /\ site = "toRange"
    /\ seq_id' = toRange(begin, end)
    /\ rpc' = "expanded"
    /\ UNCHANGED <<site, hasData, begin, end, n>>
    /\ UNCHANGED <<asmVars, parseVars, extVars>>

InitRange == RangeInit /\ AsmIdle /\ ParseIdle /\ ExtIdle
NextRange == NoStructure \/ LoopStart \/ LoopPush \/ LoopExit \/ CallToRange
SpecRange == InitRange /\ [][NextRange]_vars

\* ------------------------------------------------------------------------
\* determineAssemblyId(traj, p): inputs
\* ------------------------------------------------------------------------

\* Largest number of targets of a motif preset, and of rows of the table.
MaxTargets == 2
MaxRows == 2

Target(oper, asym) == [struct_oper_id |-> oper, label_asym_id |-> asym]
Targets ==
    { Target(Undef, <<"A">>),
      Target(<<"1", "x", "2">>, <<"A">>),
      Target(<<>>, Undef) }

Row(aid, oper, asym) == [assembly_id |-> aid, oper_expression |-> oper, asym_id_list |-> asym]
Rows ==
    { Row(<<"1">>, <<"(", "1", ")">>, <<"A", ",", "B">>),
      Row(<<"2">>, <<"(", "1", "-", "2", ")">>, <<"A">>),
      Row(<<"3">>, <<"(", "1", ")", "(", "2", ")">>, <<"A", "A", ",", "B">>) }

AssemblyIds == { Undef, <<>>, <<"0">>, <<"2">> }

RECURSIVE SeqsOf(_, _)
SeqsOf(S, k) == IF k = 0 THEN { <<>> } ELSE { Append(q, x) : q \in SeqsOf(S, k - 1), x \in S }
SeqsUpTo(S, k) == UNION { SeqsOf(S, j) : j \in 0..k }

\* What is wrong with the metadata table:
\*   absent    a link of traj.obj.data...categories.pdbx_struct_assembly_gen is missing
\*   getField  the category has no callable getField
\*   rowCount  the category's rowCount is undefined
\*   column    getField returns undefined for the column col, so that every
\*             str lookup on it throws
Columns == {"assembly_id", "oper_expression", "asym_id_list"}
Fault(k, c) == [kind |-> k, col |-> c]
NoFault == Fault("none", "")
Faults ==
    { NoFault, Fault("absent", ""), Fault("getField", ""), Fault("rowCount", "") }
    \cup { Fault("column", c) : c \in Columns }

\* ------------------------------------------------------------------------
\* determineAssemblyId(traj, p): the code
\* ------------------------------------------------------------------------

\* Known with the early return dropped.
Known_GuardDropped(a) == FALSE

\* if (p.assemblyId && p.assemblyId !== '' && p.assemblyId !== '0') return;
Known(a) == ~Falsy(a) /\ a # <<>> /\ a # <<"0">>

\* p.targets.map(t => [t.struct_oper_id || '1', t.label_asym_id!]): every
\* element is a new array object, identified by ref.
MapTargets(ts) ==
    [k \in 1..Len(ts) |->
        [ref |-> k,
         oper |-> IF Falsy(ts[k].struct_oper_id) THEN <<"1">> ELSE ts[k].struct_oper_id,
         asym |-> ts[k].label_asym_id]]

\* a.indexOf(x) on an array of array objects compares object identity.
RECURSIVE IndexOfObject(_, _, _)
IndexOfObject(a, x, k) ==
    IF k > Len(a) THEN -1
    ELSE IF a[k].ref = x.ref THEN k - 1
    ELSE IndexOfObject(a, x, k + 1)

\* .filter((x, i, a) => a.indexOf(x) === i)
RECURSIVE FilterFirst(_, _)
FilterFirst(a, k) ==
    IF k > Len(a) THEN <<>>
    ELSE (IF IndexOfObject(a, a[k], 1) = k - 1 THEN << a[k] >> ELSE <<>>) \o FilterFirst(a, k + 1)

BuildIds(ts) ==
    LET kept == FilterFirst(MapTargets(ts), 1)
    IN  [k \in 1..Len(kept) |-> << kept[k].oper, kept[k].asym >>]

\* Caught with the table lookup placed before the try block.
Caught_ScanOnly(where) == where = "scan"

\* The statements whose exceptions the try block catches: the table lookup
\* ("open") and the row loop ("scan"); building ids ("ids") precedes the try.
Caught(where) == where \in {"open", "scan"}

\* column.str(i) throws.
LookupThrows(t, c) == t.fault.kind = "column" /\ t.fault.col = c

\* OperFails without the negation.
OperFails_NotNegated(row, v) == equals(row.oper_expression, v[1])

\* !equals(oper_expression.str(i), val[0])
OperFails(row, v) == ~equals(row.oper_expression, v[1])
\* asym_id_list.str(i).indexOf(val[1]) === -1
ChainFails(row, v) == StrIndexOf(row.asym_id_list, v[2]) = -1

\* ids.some(val => !equals(oper_expression.str(i), val[0])
\*                 || asym_id_list.str(i).indexOf(val[1]) === -1)
\* evaluated on row r from the k-th id on: the result and the str calls made.
RECURSIVE SomeFails(_, _, _, _)
SomeFails(t, idl, r, k) ==
    IF k > Len(idl) THEN [res |-> "false", calls |-> 0]
    ELSE IF LookupThrows(t, "oper_expression") THEN [res |-> "throw", calls |-> 1]
    ELSE IF OperFails(t.rows[r + 1], idl[k]) THEN [res |-> "true", calls |-> 1]
    ELSE IF LookupThrows(t, "asym_id_list") THEN [res |-> "throw", calls |-> 2]
    ELSE IF ChainFails(t.rows[r + 1], idl[k]) THEN [res |-> "true", calls |-> 2]
    ELSE LET rest == SomeFails(t, idl, r, k + 1)
         IN  [res |-> rest.res, calls |-> rest.calls + 2]

\* One pass of the loop body on row r: "continue", "select" or "throw".
RowStep(t, idl, r) ==
    LET some == SomeFails(t, idl, r, 1)
    IN  IF some.res = "throw" THEN [res |-> "throw", calls |-> some.calls]
        ELSE IF some.res = "true" THEN [res |-> "continue", calls |-> some.calls]
        ELSE IF LookupThrows(t, "assembly_id") THEN [res |-> "throw", calls |-> some.calls + 1]
        ELSE [res |-> "select", calls |-> some.calls + 1]

\* i < il  with il = pdbx_struct_assembly_gen.rowCount
RowLoopCond(t, k) == t.fault.kind # "rowCount" /\ k < Len(t.rows)

\* Where an exception thrown at `where` takes the call.
Throw(where) ==
    IF Caught(where)
    THEN /\ threw' = TRUE
         /\ pc' = "default"
         /\ UNCHANGED raised
    ELSE /\ raised' = TRUE
         /\ pc' = "done"
         /\ UNCHANGED threw

AsmInit ==
    /\ \E a \in AssemblyIds, d \in BOOLEAN :
        \E ts \in IF d THEN SeqsUpTo(Targets, MaxTargets) ELSE { <<>> } :
            p0 = [assemblyId |-> a, targetsDefined |-> d, targets |-> ts,
                  kind |-> "motif", label |-> "motif", color |-> 255,
                  modelIndex |-> 0]
    /\ p = p0
    /\ \E rws \in SeqsUpTo(Rows, MaxRows), f \in Faults :
        traj = [fault |-> f, rows |-> rws]
    /\ ids = <<>>
    /\ i = 0
    /\ pc = "start"
    /\ threw = FALSE
    /\ raised = FALSE
    /\ reads = 0
    /\ selected = -1

\* nothing to do if assembly is known
SkipKnown ==
    /\ pc = "start"
    /\ Known(p.assemblyId)
    /\ pc' = "done"
    /\ UNCHANGED <<p0, p, traj, ids, i, threw, raised, reads, selected>>
    /\ UNCHANGED <<parseVars, rangeVars, extVars>>

\* const ids = p.targets.map(...).filter(...)
ComputeIds ==
    /\ pc = "start"
    /\ ~Known(p.assemblyId)
    /\ IF p.targetsDefined
       THEN /\ ids' = BuildIds(p.targets)
            /\ pc' = "open"
            /\ UNCHANGED <<threw, raised>>
       ELSE /\ Throw("ids")
            /\ UNCHANGED ids
    /\ UNCHANGED <<p0, p, traj, i, reads, selected>>
    /\ UNCHANGED <<parseVars, rangeVars, extVars>>

\* const pdbx_struct_assembly_gen = traj.obj.data...; three getField calls;
\* the loop header reads rowCount.
OpenTable ==
    /\ pc = "open"
    /\ IF traj.fault.kind \in {"absent", "getField"}
       THEN /\ Throw("open")
            /\ reads' = reads + (IF traj.fault.kind = "absent" THEN 1 ELSE 2)
            /\ UNCHANGED i
       ELSE /\ pc' = "scan"
            /\ i' = 0
            /\ reads' = reads + 5
            /\ UNCHANGED <<threw, raised>>
    /\ UNCHANGED <<p0, p, traj, ids, selected>>
    /\ UNCHANGED <<parseVars, rangeVars, extVars>>

\* One iteration of  for (let i = 0, il = rowCount; i < il; i++) { ... }
ScanRow ==
    /\ pc = "scan"
    /\ RowLoopCond(traj, i)
    /\ LET step == RowStep(traj, ids, i)
       IN  /\ reads' = reads + step.calls
           /\ CASE step.res = "continue" ->
                     /\ i' = i + 1
                     /\ UNCHANGED <<p, pc, threw, raised, selected>>
                [] step.res = "select" ->
                     /\ p' = [p EXCEPT !.assemblyId = traj.rows[i + 1].assembly_id]
                     /\ selected' = i
                     /\ pc' = "done"
                     /\ UNCHANGED <<i, threw, raised>>
                [] step.res = "throw" ->
                     /\ Throw("scan")
                     /\ UNCHANGED <<p, i, selected>>
    /\ UNCHANGED <<p0, traj, ids>>
    /\ UNCHANGED <<parseVars, rangeVars, extVars>>

\* The loop ends without a match.
ScanEnd ==
    /\ pc = "scan"
    /\ ~RowLoopCond(traj, i)
    /\ pc' = "default"
    /\ UNCHANGED <<p0, p, traj, ids, i, threw, raised, reads, selected>>
    /\ UNCHANGED <<parseVars, rangeVars, extVars>>

\* DefaultToOne assigning '1' only after an exception.
DefaultToOne_OnlyOnError ==
    /\ pc = "default"
    /\ p' = IF threw THEN [p EXCEPT !.assemblyId = <<"1">>] ELSE p
    /\ pc' = "done"
    /\ UNCHANGED <<p0, traj, ids, i, threw, raised, reads, selected>>
    /\ UNCHANGED <<parseVars, rangeVars, extVars>>

\* A default that builds a fresh preset object around the id '1' in place
\* of assigning the one field: the target list of the caller's preset is
\* lost.
DefaultToOne_FreshObject ==
    /\ pc = "default"
    /\ p' = [p EXCEPT !.assemblyId = <<"1">>, !.targets = <<>>]
    /\ pc' = "done"
    /\ UNCHANGED <<p0, traj, ids, i, threw, raised, reads, selected>>
    /\ UNCHANGED <<parseVars, rangeVars, extVars>>

\* default to '1' if error or legitimately not found
DefaultToOne ==
    /\ pc = "default"
    /\ p' = [p EXCEPT !.assemblyId = <<"1">>]
    /\ pc' = "done"
    /\ UNCHANGED <<p0, traj, ids, i, threw, raised, reads, selected>>
    /\ UNCHANGED <<parseVars, rangeVars, extVars>>

InitAsm == AsmInit /\ ParseIdle /\ RangeIdle /\ ExtIdle
NextAsm == SkipKnown \/ ComputeIds \/ OpenTable \/ ScanRow \/ ScanEnd \/ DefaultToOne
SpecAsm == InitAsm /\ [][NextAsm]_vars

\* ------------------------------------------------------------------------
\* Claims about parseOperatorList and equals (specification SpecParse)
\* ------------------------------------------------------------------------

\* The decimal strings of 0..12, written out.
Decimal ==
    << <<"0">>, <<"1">>, <<"2">>, <<"3">>, <<"4">>, <<"5">>, <<"6">>, <<"7">>, <<"8">>,
       <<"9">>, <<"1", "0">>, <<"1", "1">>, <<"1", "2">> >>

\* A range item a-b with integers a <= b.
GoodRange(it) == it.kind = "range" /\ it.from.isNum /\ it.to.isNum /\ it.from.num <= it.to.num
\* A range item whose bounds are inverted or not numeric.
BadRange(it) == it.kind = "range" /\ ~GoodRange(it)

\* The tokens an item stands for.
ItemTokens(it) ==
    IF it.kind = "lit" THEN << it.txt >>
    ELSE IF GoodRange(it) THEN [k \in 1..(it.to.num - it.from.num + 1) |-> Decimal[it.from.num + k]]
    ELSE << >>
RECURSIVE GroupTokens(_)
GroupTokens(g) == IF g = <<>> THEN <<>> ELSE ItemTokens(Head(g)) \o GroupTokens(Tail(g))
AxesOf(a) == [k \in 1..Len(a) |-> GroupTokens(a[k])]

WellFormed(a) == \A g \in 1..Len(a) : \A k \in 1..Len(a[g]) : ~BadRange(a[g][k])
Parsed == ppc \in {"parsed", "compared"}

\* The components of each requested operator id, written out.
ComponentsOf(v) ==
    CASE v = <<"1">> -> << <<"1">> >>
      [] v = <<"X", "0", "x", "3">> -> << <<"X", "0">>, <<"3">> >>
      [] v = <<"3", "x", "X", "0">> -> << <<"3">>, <<"X", "0">> >>
      [] v = <<"1", "x", "1">> -> << <<"1">>, <<"1">> >>

\* C6: equals(expr, val) is true exactly when every component k of val has an
\* axis k in the parsed expression and that axis holds the component as a
\* token; more components than axes never match, and the test is positional.
C6_EqualsPositional ==
    ppc = "compared" =>
        (eq <=> \A k \in 1..Len(ComponentsOf(val)) :
                    /\ k <= Len(ret)
                    /\ \E j \in 1..Len(ret[k]) : ret[k][j] = ComponentsOf(val)[k])

\* C6 witness: '(X0)(1-5)' against '3xX0': both tokens occur, on the wrong axes.
C6_Witness ==
    /\ ppc = "compared"
    /\ value = <<"(", "X", "0", ")", "(", "1", "-", "5", ")">>
    /\ val = <<"3", "x", "X", "0">>
    /\ ~eq

\* C8: on a well-formed expression parseOperatorList returns one token list
\* per group, in order; items keep their order, a-b with a <= b expands to the
\* decimal strings a..b ascending, every other item is its trimmed text.
C8_ParseWellFormed ==
    (Parsed /\ WellFormed(ast)) => ret = AxesOf(ast)

\* C8 witness: '(X0)(1-5)' has been parsed to [['X0'], ['1','2','3','4','5']].
C8_Witness ==
    /\ Parsed
    /\ value = <<"(", "X", "0", ")", "(", "1", "-", "5", ")">>
    /\ ret = << << <<"X", "0">> >>, << <<"1">>, <<"2">>, <<"3">>, <<"4">>, <<"5">> >> >>

C10_RangeExpansion ==
    rpc = "expanded" =>
        IF begin <= end
        THEN /\ Len(seq_id) = end - begin + 1
             /\ \A k \in 1..Len(seq_id) : seq_id[k] = begin + k - 1
        ELSE seq_id = <<>>

\* C10 witness: getLociFromRange has expanded (-1, 2) to four residue numbers.
C10_Witness ==
    /\ rpc = "expanded"
    /\ site = "getLociFromRange"
    /\ begin = -1
    /\ end = 2
    /\ seq_id = <<-1, 0, 1, 2>>

\* ------------------------------------------------------------------------
\* Claims about determineAssemblyId (specification SpecAsm)
\* ------------------------------------------------------------------------

Done == pc = "done"

\* The preset came without a usable assembly id: unset, empty or '0'.
NoAssemblyId == p0.assemblyId \in { Undef, <<>>, <<"0">> }

\* The requested (operator, chain) pairs of the preset as handed in.
Requested ==
    { << IF t.struct_oper_id \in { Undef, <<>> } THEN <<"1">> ELSE t.struct_oper_id,
         t.label_asym_id >> : t \in { p0.targets[k] : k \in 1..Len(p0.targets) } }

\* Row r (0-based) passes the code's operator test and chain test for a pair.
PairMatches(r, pair) ==
    /\ equals(traj.rows[r + 1].oper_expression, pair[1])
    /\ StrIndexOf(traj.rows[r + 1].asym_id_list, pair[2]) # -1
FullyMatches(r) == \A pair \in Requested : PairMatches(r, pair)
RowIndexes == 0..(Len(traj.rows) - 1)

\* C1: without a usable assembly id, and when no lookup of the scan throws,
\* the rows are scanned in ascending index and p.assemblyId becomes the
\* assembly_id of the lowest-index row that matches EVERY requested pair; a
\* row failing a pair is never selected, nor a row behind the first full match.
C1_FirstFullMatch ==
    (Done /\ NoAssemblyId /\ p0.targetsDefined) =>
        /\ selected # -1 =>
              /\ selected \in RowIndexes
              /\ FullyMatches(selected)
              /\ \A r \in RowIndexes : r < selected => ~FullyMatches(r)
              /\ p.assemblyId = traj.rows[selected + 1].assembly_id
        /\ (~threw /\ traj.fault.kind # "rowCount" /\ \E r \in RowIndexes : FullyMatches(r))
              => selected # -1

\* C1 witness: targets (1, A) and (1x2, A); row 0 '(1)' matches only the first
\* pair, row 1 '(1)(2)' matches both pairs and was selected.
C1_Witness ==
    /\ Done
    /\ NoAssemblyId
    /\ Cardinality(Requested) = 2
    /\ Len(traj.rows) = 2
    /\ \E pair \in Requested : PairMatches(0, pair)
    /\ ~FullyMatches(0)
    /\ FullyMatches(1)
    /\ selected = 1
    /\ p.assemblyId = <<"3">>

C3_NeverRaises == ~raised

\* C3 amended: for a preset whose target list is present (its targets may lack
\* label_asym_id or struct_oper_id) no exception leaves determineAssemblyId,
\* whatever the trajectory.
C3_NeverRaisesWithTargets == p0.targetsDefined => ~raised

\* C3 witness: the table is absent, a target has neither label_asym_id nor
\* struct_oper_id, the exception was caught and the call returned.
C3_Witness ==
    /\ Done
    /\ traj.fault.kind = "absent"
    /\ \E k \in 1..Len(p0.targets) :
          p0.targets[k].label_asym_id = Undef /\ Falsy(p0.targets[k].struct_oper_id)
    /\ threw
    /\ ~raised

\* C4: a preset that carries a non-empty assembly id other than '0' keeps it,
\* and the metadata table is never read.
C4_KnownIdSkips ==
    ~NoAssemblyId => (p = p0 /\ reads = 0 /\ selected = -1)

\* C4 witness: the call returned on a preset with assembly id '2' although the
\* table's first row would have matched.
C4_Witness ==
    /\ Done
    /\ p0.assemblyId = <<"2">>
    /\ Len(p0.targets) > 0
    /\ traj.fault.kind = "none"
    /\ Len(traj.rows) > 0
    /\ FullyMatches(0)
    /\ traj.rows[1].assembly_id = <<"1">>

\* The chain labels of a comma-separated asym_id_list.
ListLabels(s) == LET parts == Split(s, ",") IN { parts[k] : k \in 1..Len(parts) }

\* C5: a selected row lists every requested chain label as an element of its
\* comma-separated asym_id_list.
C5_ChainIsListElement ==
    selected # -1 =>
        \A pair \in Requested : pair[2] \in ListLabels(traj.rows[selected + 1].asym_id_list)

\* C7: the collection of requested pairs holds no two entries with the same
\* operator id and the same chain label.
C7_IdsDeduplicated ==
    \A a, b \in 1..Len(ids) : a # b => ids[a] # ids[b]


\* ========================================================================
\* RcsbPreset.apply(trajectory, params, plugin)  (specification SpecApply)
\* ========================================================================

\* ------------------------------------------------------------------------
\* apply: inputs
\* ------------------------------------------------------------------------

Kinds ==
    { "standard", "validation", "symmetry", "feature", "density", "membrane",
      "feature-density", "prop-set", "motif", "empty" }

\* An absent colour; a present colour is a number, 0 being black.
NoColor == 0 - 1
Colors == { NoColor, 0, 255 }

\* An absent label is "undefined"; the empty label is falsy.
NoLabel == "undefined"
Labels == { NoLabel, "", "motif" }
EntryId == "1ABC"

Preset(k, a, d, ts, l, c) ==
    [kind |-> k, assemblyId |-> a, targetsDefined |-> d, targets |-> ts,
     label |-> l, color |-> c]

\* The presets handed to apply: a prop-set may omit its targets, a motif
\* declares them (MotifProps.targets is not optional), the other kinds have
\* none.
Presets ==
    { Preset(k, a, FALSE, <<>>, NoLabel, NoColor) :
        k \in Kinds \ {"motif"}, a \in AssemblyIds }
    \cup { Preset("prop-set", a, TRUE, ts, NoLabel, NoColor) :
        a \in AssemblyIds, ts \in SeqsUpTo(Targets, MaxTargets) }
    \cup { Preset("motif", a, TRUE, ts, l, c) :
        a \in AssemblyIds, ts \in SeqsUpTo(Targets, MaxTargets),
        l \in Labels, c \in Colors }

\* ------------------------------------------------------------------------
\* apply: the helpers imported from ./selection
\* ------------------------------------------------------------------------

\* normalizeTargets(targets, structure): every target gets the operator '1'
\* where it names none.
normalizeTargets(ts) ==
    [k \in 1..Len(ts) |->
        [ts[k] EXCEPT !.struct_oper_id =
            IF Falsy(ts[k].struct_oper_id) THEN <<"1">> ELSE ts[k].struct_oper_id]]

NoTarget == Target(Undef, Undef)
Expression(l, w, t) ==
    [label |-> l, whole |-> w, target |-> t, isHidden |-> FALSE, color |-> NoColor]

\* createSelectionExpressions(labelBase, selection?): one expression per
\* target, a single whole-entry expression when no selection is given.  No
\* expression is hidden or coloured by the builder itself.
createSelectionExpressions(l, d, ts) ==
    IF d THEN [k \in 1..Len(ts) |-> Expression(l, FALSE, ts[k])]
    ELSE << Expression(l, TRUE, NoTarget) >>


\* ------------------------------------------------------------------------
\* apply: the code
\* ------------------------------------------------------------------------

NoHandle == "undefined"
Structure(s, o, c, r) == [set |-> s, obj |-> o, cell |-> c, root |-> r]
StructureUnset == Structure(FALSE, FALSE, FALSE, "none")

\* The activation record of one apply call.
Frame(q) ==
    [p |-> q, pc |-> "start", outstanding |-> {}, structureParams |-> "model",
     model |-> NoHandle, modelProperties |-> NoHandle, structure |-> StructureUnset,
     structureProperties |-> NoHandle, unitcell |-> NoHandle,
     representation |-> NoHandle, presets |-> <<>>, resolved |-> <<>>,
     reapplied |-> FALSE, focused |-> FALSE, panels |-> {}, warned |-> FALSE]

Top == frames[Len(frames)]
SetTop(f) == frames' = [frames EXCEPT ![Len(frames)] = f]

\* Every host request of apply is awaited, except tryCreateUnitcell.
Awaited_ExceptUnitcell(r) == r # "tryCreateUnitcell"

\* Every host request of apply is issued as `await request(...)`.
Awaited(r) == TRUE

\* The call can go on: no request it awaits is outstanding.
Resumable(f) == \A r \in f.outstanding : ~Awaited(r)

Request(f, name, q) ==
    [call |-> Len(frames), name |-> name, preset |-> q,
     busy |-> Cardinality(f.outstanding)]
Issue(f, name, q, next) ==
    /\ SetTop([f EXCEPT !.outstanding = @ \cup {name}, !.pc = next])
    /\ requests' = Append(requests, Request(f, name, q))

RECURSIVE ConcatAll(_)
ConcatAll(ss) == IF ss = <<>> THEN <<>> ELSE Head(ss) \o ConcatAll(Tail(ss))

\* lines 194-202: if (p.targets) one call per target, else one whole-entry call.
\* An array is truthy in JavaScript, the empty one included.
PropsetExpressions(q) ==
    IF q.targetsDefined
    THEN ConcatAll([k \in 1..Len(q.targets) |->
                       createSelectionExpressions(EntryId, TRUE, << q.targets[k] >>)])
    ELSE createSelectionExpressions(EntryId, FALSE, <<>>)

\* The appended expressions left as createSelectionExpressions made them.
Hide_Nothing(es) == es

\* globalExpressions.map(e => { return { ...e, isHidden: true }; })
Hide(es) == [k \in 1..Len(es) |-> [es[k] EXCEPT !.isHidden = TRUE]]

\* selectionExpressions.map(e => { return { ...e, color: p.color }; })
Colorize(es, c) == [k \in 1..Len(es) |-> [es[k] EXCEPT !.color = c]]

\* p.label || model.data!.entryId
LabelOf(q) == IF q.label \in { NoLabel, "" } THEN EntryId ELSE q.label

\* lines 212-221
MotifExpressions(q) ==
    LET targets == normalizeTargets(q.targets)
        selectionExpressions == createSelectionExpressions(LabelOf(q), TRUE, targets)
        globalExpressions == createSelectionExpressions(LabelOf(q), FALSE, <<>>)
        all == selectionExpressions \o Hide(globalExpressions)
    IN  IF q.color # NoColor /\ q.color # 0 THEN Colorize(all, q.color) ELSE all

NoPreset == [name |-> "none", selectionExpressions |-> <<>>]

\* The chain on p.kind without its membrane branch.
RepresentationOf_NoMembrane(f) ==
    CASE f.p.kind = "prop-set" ->
            [name |-> "superposition", selectionExpressions |-> PropsetExpressions(f.p)]
      [] f.p.kind = "motif" /\ f.structure.obj ->
            [name |-> "superposition", selectionExpressions |-> MotifExpressions(f.p)]
      [] f.p.kind = "validation" ->
            [name |-> "validation-report", selectionExpressions |-> <<>>]
      [] f.p.kind = "symmetry" ->
            [name |-> "assembly-symmetry", selectionExpressions |-> <<>>]
      [] f.p.kind = "empty" -> NoPreset
      [] OTHER -> [name |-> "auto", selectionExpressions |-> <<>>]

\* lines 163-244: the representation preset of the branch the call takes.
RepresentationOf(f) ==
    CASE f.p.kind = "prop-set" ->
            [name |-> "superposition", selectionExpressions |-> PropsetExpressions(f.p)]
      [] f.p.kind = "motif" /\ f.structure.obj ->
            [name |-> "superposition", selectionExpressions |-> MotifExpressions(f.p)]
      [] f.p.kind = "validation" ->
            [name |-> "validation-report", selectionExpressions |-> <<>>]
      [] f.p.kind = "symmetry" ->
            [name |-> "assembly-symmetry", selectionExpressions |-> <<>>]
      [] f.p.kind = "empty" -> NoPreset
      [] f.p.kind = "membrane" ->
            [name |-> "membrane-orientation", selectionExpressions |-> <<>>]
      [] OTHER -> [name |-> "auto", selectionExpressions |-> <<>>]


FeatureKinds == { "feature", "feature-density" }

\* Where the call goes on after the representation branch (lines 246, 269).
AfterRepresentation(f) ==
    IF f.p.kind \in FeatureKinds /\ f.structure.obj THEN "feature"
    ELSE IF f.p.kind = "density" /\ f.structure.set THEN "volume"
    ELSE "return"

\* Where a feature call goes on once its target is resolved (line 261).
AfterResolve(f) == IF f.p.kind = "feature-density" THEN "volume" ELSE "focus"

\* The fallback condition with the assembly id ignored.
NeedsFallback_AnyAssembly(loci, a) == loci = "empty"

\* line 251: loci.elements.length === 0 && !!p.assemblyId
NeedsFallback(loci, a) == loci = "empty" /\ ~Falsy(a)

\* What targetToLoci can return for a structure.
Loci == { "empty", "some" }

ApplyInit ==
    /\ \E q \in Presets : frames = << Frame(q) >>
    /\ requests = <<>>

AtTop(label) ==
    /\ frames # <<>>
    /\ Top.pc = label
    /\ Resumable(Top)

\* lines 128-142: determineAssemblyId for a motif (it leaves a known id alone
\* and otherwise assigns the id of a table row or '1'), structureParams,
\* then createModel.
CreateModel ==
    /\ AtTop("start")
    /\ \E a \in { <<"1">>, <<"2">> } :
        LET q == IF Top.p.kind = "motif" /\ ~Known(Top.p.assemblyId)
                 THEN [Top.p EXCEPT !.assemblyId = a] ELSE Top.p
            f == [Top EXCEPT !.p = q,
                             !.structureParams =
                                 IF Known(q.assemblyId) THEN "assembly" ELSE "model"]
        IN  Issue(f, "createModel", q, "insertModelProperties")
    /\ UNCHANGED notApply

\* line 143
InsertModelProperties ==
    /\ AtTop("insertModelProperties")
    /\ Issue(Top, "insertModelProperties", Top.p,
             IF Top.p.kind = "prop-set" THEN "commitStructure" ELSE "createStructure")
    /\ UNCHANGED notApply

\* line 152
CreateStructure ==
    /\ AtTop("createStructure")
    /\ Issue(Top, "createStructure", Top.p, "insertStructureProperties")
    /\ UNCHANGED notApply

\* line 153
InsertStructureProperties ==
    /\ AtTop("insertStructureProperties")
    /\ Issue(Top, "insertStructureProperties", Top.p,
             IF Top.p.kind # "motif" THEN "tryCreateUnitcell" ELSE "representation")
    /\ UNCHANGED notApply

\* lines 156-158
TryCreateUnitcell ==
    /\ AtTop("tryCreateUnitcell")
    /\ Issue(Top, "tryCreateUnitcell", Top.p, "representation")
    /\ UNCHANGED notApply

\* lines 165-167
CommitStructure ==
    /\ AtTop("commitStructure")
    /\ Issue(Top, "commitStructure", Top.p, "commitStructureProperties")
    /\ UNCHANGED notApply

\* lines 169-171
CommitStructureProperties ==
    /\ AtTop("commitStructureProperties")
    /\ Issue(Top, "commitStructureProperties", Top.p, "representation")
    /\ UNCHANGED notApply

\* lines 163-244: the branch on p.kind; 'empty' only warns.
ApplyRepresentation ==
    /\ AtTop("representation")
    /\ LET r == RepresentationOf(Top)
       IN  IF r = NoPreset
           THEN /\ SetTop([Top EXCEPT !.warned = TRUE, !.pc = AfterRepresentation(Top)])
                /\ UNCHANGED requests
           ELSE Issue([Top EXCEPT !.presets = Append(@, r)], "applyPreset", Top.p,
                      AfterRepresentation(Top))
    /\ UNCHANGED notApply

\* lines 246-256: resolve the target; on an empty result under an assembly
\* ask the host for the model view with preset.assemblyId cleared.
ResolveTarget ==
    /\ AtTop("feature")
    /\ \E loci \in Loci :
        LET f == [Top EXCEPT !.resolved = Append(@, loci)]
        IN  IF NeedsFallback(loci, Top.p.assemblyId)
            THEN Issue(f, "updateStructure", [Top.p EXCEPT !.assemblyId = Undef],
                       "resolveAgain")
            ELSE /\ SetTop([f EXCEPT !.pc = AfterResolve(Top)])
                 /\ UNCHANGED requests
    /\ UNCHANGED notApply

\* line 257: loci = targetToLoci(p.target, structure!.obj.data) once more.
ResolveAgain ==
    /\ AtTop("resolveAgain")
    /\ \E loci \in Loci :
        SetTop([Top EXCEPT !.resolved = Append(@, loci), !.pc = AfterResolve(Top)])
    /\ UNCHANGED requests
    /\ UNCHANGED notApply

\* lines 360-367: initVolumeStreaming returns at once without a parent cell
\* and starts the streaming only when the subtree has no volume root yet.
InitVolumeStreaming ==
    /\ AtTop("volume")
    /\ LET next == IF Top.p.kind = "feature-density" THEN "radius" ELSE "toast"
           skip == IF Top.p.kind = "feature-density" THEN "focus" ELSE "toast"
       IN  \E volumeRoot \in BOOLEAN :
             IF Top.structure.cell /\ ~volumeRoot
             THEN Issue(Top, "InitVolumeStreaming", Top.p, next)
             ELSE /\ SetTop([Top EXCEPT !.pc = skip])
                  /\ UNCHANGED requests
    /\ UNCHANGED notApply

\* lines 370-377: feature-density passes overrideRadius, so the radius update
\* is committed.
OverrideRadius ==
    /\ AtTop("radius")
    /\ Issue(Top, "updateRadius", Top.p, "focus")
    /\ UNCHANGED notApply

\* What initVolumeStreaming leaves in the collapsed-panel state (lines 389-392).
VolumePanel(f) == IF f.structure.cell THEN {"volume"} ELSE {}

\* lines 265-266: focus.setFromLoci(target); camera.focusLoci(target)
Focus ==
    /\ AtTop("focus")
    /\ SetTop([Top EXCEPT !.focused = TRUE, !.pc = "return",
                          !.panels = @ \cup (IF Top.p.kind = "feature-density"
                                             THEN VolumePanel(Top) ELSE {})])
    /\ UNCHANGED requests
    /\ UNCHANGED notApply

\* lines 272-277
ToastShow ==
    /\ AtTop("toast")
    /\ Issue([Top EXCEPT !.panels = @ \cup VolumePanel(Top)], "Toast.Show", Top.p, "return")
    /\ UNCHANGED notApply

\* lines 233-236 and 286-293: the symmetry branch opens the custom panel once
\* its preset is applied; the call returns its handles.
Return ==
    /\ AtTop("return")
    /\ SetTop([Top EXCEPT !.pc = "done",
                          !.panels = @ \cup (IF Top.p.kind = "symmetry"
                                             THEN {"custom"} ELSE {})])
    /\ UNCHANGED requests
    /\ UNCHANGED notApply

\* What the host hands back for a request.
Completed(f, r) ==
    CASE r = "createModel" -> { [f EXCEPT !.model = "model"] }
      [] r = "insertModelProperties" -> { [f EXCEPT !.modelProperties = "modelProperties"] }
      [] r = "createStructure" ->
            { [f EXCEPT !.structure = Structure(TRUE, o, c, f.structureParams)] :
                o \in BOOLEAN, c \in BOOLEAN }
      [] r = "commitStructure" ->
            { [f EXCEPT !.structure = Structure(TRUE, o, c, "flexible")] :
                o \in BOOLEAN, c \in BOOLEAN }
      [] r \in { "insertStructureProperties", "commitStructureProperties" } ->
            { [f EXCEPT !.structureProperties = "structureProperties"] }
      [] r = "tryCreateUnitcell" ->
            { [f EXCEPT !.unitcell = u] : u \in { NoHandle, "unitcell" } }
      [] r = "applyPreset" ->
            { [f EXCEPT !.representation = f.presets[Len(f.presets)].name] }
      [] OTHER -> { f }

\* The host completes a request of the innermost call.  A structure object
\* implies its state cell.
HostCompletes ==
    /\ frames # <<>>
    /\ \E r \in Top.outstanding :
        \E g \in Completed(Top, r) :
            /\ g.structure.obj => g.structure.cell
            /\ SetTop([g EXCEPT !.outstanding = @ \ {r}])
    /\ UNCHANGED requests
    /\ UNCHANGED notApply

\* While it updates the structure the host may apply the preset again, with
\* the parameters updateStructure was given.
HostReapplies ==
    /\ frames # <<>>
    /\ "updateStructure" \in Top.outstanding
    /\ ~Top.reapplied
    /\ frames' = Append([frames EXCEPT ![Len(frames)].reapplied = TRUE],
                        Frame(requests[Len(requests)].preset))
    /\ UNCHANGED requests
    /\ UNCHANGED notApply

\* The nested call has returned.
HostReapplied ==
    /\ Len(frames) > 1
    /\ Top.pc = "done"
    /\ frames' = SubSeq(frames, 1, Len(frames) - 1)
    /\ UNCHANGED requests
    /\ UNCHANGED notApply

InitApply == ApplyInit /\ CoreIdle /\ LoadIdle /\ SearchIdle /\ TreeIdle /\ MoreIdle
NextApply ==
    \/ CreateModel \/ InsertModelProperties \/ CreateStructure
    \/ InsertStructureProperties \/ TryCreateUnitcell
    \/ CommitStructure \/ CommitStructureProperties \/ ApplyRepresentation
    \/ ResolveTarget \/ ResolveAgain \/ InitVolumeStreaming \/ OverrideRadius
    \/ Focus \/ ToastShow \/ Return
    \/ HostCompletes \/ HostReapplies \/ HostReapplied
SpecApply == InitApply /\ [][NextApply]_vars
\* ------------------------------------------------------------------------
\* Claims about RcsbPreset.apply
\* ------------------------------------------------------------------------

\* The calls of the running operation, and the preset applied by a call.
Calls == { frames[k] : k \in 1..Len(frames) }
Applied(f) == f.presets[Len(f.presets)]
TookMotifBranch(f) ==
    /\ f.p.kind = "motif"
    /\ f.presets # <<>>
    /\ Applied(f).name = "superposition"

WithoutColor(e) == [e EXCEPT !.color = NoColor]

\* C11: in the motif branch the expression list handed to the representation
\* preset is the expressions built from the normalized targets followed by
\* the whole-entry expressions; every appended whole-entry expression is
\* hidden, and the isHidden flag of the target expressions is the one the
\* builder gave them.
C11_MotifExpressions ==
    \A f \in Calls :
        TookMotifBranch(f) =>
            LET es == Applied(f).selectionExpressions
                ts == createSelectionExpressions(LabelOf(f.p), TRUE, normalizeTargets(f.p.targets))
                gs == createSelectionExpressions(LabelOf(f.p), FALSE, <<>>)
            IN  /\ Len(es) = Len(ts) + Len(gs)
                /\ \A k \in 1..Len(ts) :
                       /\ WithoutColor(es[k]) = ts[k]
                       /\ es[k].isHidden = ts[k].isHidden
                /\ \A k \in 1..Len(gs) :
                       /\ es[Len(ts) + k].isHidden = TRUE
                       /\ es[Len(ts) + k].whole
                       /\ WithoutColor(es[Len(ts) + k]) = [gs[k] EXCEPT !.isHidden = TRUE]

\* A motif call with two targets has returned: its preset got the two
\* visible target expressions and the hidden whole-entry expression.
C11_Witness ==
    \E f \in Calls :
        /\ f.pc = "done"
        /\ TookMotifBranch(f)
        /\ Len(f.p.targets) = 2
        /\ Len(Applied(f).selectionExpressions) = 3
        /\ ~Applied(f).selectionExpressions[1].isHidden
        /\ Applied(f).selectionExpressions[3].isHidden
        /\ Applied(f).selectionExpressions[3].whole
TookPropsetBranch(f) == f.p.kind = "prop-set" /\ f.presets # <<>>
NoTargetsGiven(q) == ~q.targetsDefined \/ q.targets = <<>>

\* C12: in the prop-set branch the expression list handed to the
\* representation preset is, when targets are given, the concatenation in
\* target order of one createSelectionExpressions(entryId, target) per
\* target; when the target list is omitted or empty it is the result of the
\* single call createSelectionExpressions(entryId); so it is never empty.
C12_PropsetExpressions ==
    \A f \in Calls :
        TookPropsetBranch(f) =>
            LET es == Applied(f).selectionExpressions
            IN  /\ ~NoTargetsGiven(f.p) =>
                       es = ConcatAll([k \in 1..Len(f.p.targets) |->
                               createSelectionExpressions(EntryId, TRUE, << f.p.targets[k] >>)])
                /\ NoTargetsGiven(f.p) =>
                       es = createSelectionExpressions(EntryId, FALSE, <<>>)
                /\ es # <<>>
\* The updateStructure requests of a call, and of the whole operation.
Fallbacks(c) == { k \in 1..Len(requests) :
                     requests[k].name = "updateStructure" /\ requests[k].call = c }
AllFallbacks == { k \in 1..Len(requests) : requests[k].name = "updateStructure" }
CallIndex == 1..Len(frames)
PastResolution(f) == f.pc \in { "volume", "radius", "focus", "toast", "return", "done" }

\* C13: a feature or feature-density call whose target resolves to nothing
\* while an assembly id is set asks hierarchy.updateStructure exactly once,
\* with its own parameters except preset.assemblyId cleared, and then
\* resolves the target exactly once more; with a non-empty first resolution
\* or without an assembly id it never asks; and the whole operation, the
\* application the host starts from updateStructure included, asks at most
\* once.
C13_FallbackOnce ==
    /\ Cardinality(AllFallbacks) <= 1
    /\ \A k \in AllFallbacks :
           /\ requests[k].preset.assemblyId = Undef
           /\ requests[k].preset.kind \in FeatureKinds
           /\ \A c \in CallIndex :
                  c = requests[k].call =>
                      requests[k].preset = [frames[c].p EXCEPT !.assemblyId = Undef]
    /\ \A c \in CallIndex :
           LET f == frames[c]
           IN  /\ Fallbacks(c) # {} <=>
                      /\ f.p.kind \in FeatureKinds
                      /\ f.resolved # <<>>
                      /\ f.resolved[1] = "empty"
                      /\ ~Falsy(f.p.assemblyId)
               /\ Len(f.resolved) <= 2
               /\ PastResolution(f) /\ f.p.kind \in FeatureKinds /\ f.structure.obj =>
                      Len(f.resolved) = 1 + Cardinality(Fallbacks(c))

\* A feature call under assembly '2' resolved nothing, asked for the model
\* view, the host applied the preset again and that application returned,
\* and the call resolved its target a second time and returned.
C13_Witness ==
    /\ Len(frames) = 1
    /\ frames[1].pc = "done"
    /\ frames[1].p.assemblyId = <<"2">>
    /\ frames[1].reapplied
    /\ Len(frames[1].resolved) = 2
    /\ Cardinality(AllFallbacks) = 1
\* The names of the requests a call has issued, in issue order.
RECURSIVE NamesOf(_, _)
NamesOf(c, k) ==
    IF k > Len(requests) THEN <<>>
    ELSE IF requests[k].call = c THEN << requests[k].name >> \o NamesOf(c, k + 1)
    ELSE NamesOf(c, k + 1)

\* The requests every call of a kind makes before its representation branch.
Construction(kind) ==
    CASE kind = "prop-set" ->
            << "createModel", "insertModelProperties" >>
      [] kind = "motif" ->
            << "createModel", "insertModelProperties", "createStructure",
               "insertStructureProperties" >>
      [] OTHER ->
            << "createModel", "insertModelProperties", "createStructure",
               "insertStructureProperties", "tryCreateUnitcell" >>
Commits == { "commitStructure", "commitStructureProperties" }
Later == << "applyPreset", "updateStructure", "InitVolumeStreaming", "updateRadius", "Toast.Show" >>
LaterRank(name) == CHOOSE k \in 1..Len(Later) : Later[k] = name
IsPrefix(s, t) == Len(s) <= Len(t) /\ SubSeq(t, 1, Len(s)) = s
WithoutCommits(s) == SelectSeq(s, LAMBDA x : x \notin Commits)

\* C14: within one apply call at most one host request is outstanding at a
\* time, every request is started only after the previous one completed, and
\* the requests come in the order createModel, insertModelProperties, then
\* (not for prop-set) createStructure, insertStructureProperties and (not
\* for motif) tryCreateUnitcell, then the representation preset, then the
\* fallback, volume streaming and toast requests; the focus calls are made
\* with nothing outstanding.
C14_OneRequestAtATime ==
    /\ \A k \in 1..Len(requests) : requests[k].busy = 0
    /\ \A c \in CallIndex :
           LET f == frames[c]
               names == WithoutCommits(NamesOf(c, 1))
               head == Construction(f.p.kind)
           IN  /\ Cardinality(f.outstanding) <= 1
               /\ f.focused => f.outstanding = {}
               /\ IF Len(names) <= Len(head) THEN IsPrefix(names, head)
                  ELSE /\ IsPrefix(head, names)
                       /\ \A k \in (Len(head) + 1)..Len(names) :
                              /\ names[k] \in { Later[j] : j \in 1..Len(Later) }
                              /\ k > Len(head) + 1 =>
                                     LaterRank(names[k - 1]) < LaterRank(names[k])
               /\ f.presets # <<>> /\ f.p.kind # "prop-set" => IsPrefix(head, names)

\* A density call has returned after all its eight requests, one after the
\* other.
C14_Witness ==
    /\ Len(frames) = 1
    /\ frames[1].pc = "done"
    /\ NamesOf(1, 1) = << "createModel", "insertModelProperties", "createStructure",
                          "insertStructureProperties", "tryCreateUnitcell", "applyPreset",
                          "InitVolumeStreaming", "Toast.Show" >>
    /\ \A k \in 1..Len(requests) : requests[k].busy = 0
PastRepresentation(f) ==
    f.pc \in { "feature", "resolveAgain", "volume", "radius", "focus", "toast", "return", "done" }
CarriesHandles(f) ==
    /\ f.model # NoHandle
    /\ f.modelProperties # NoHandle
    /\ f.structure.set
    /\ f.structureProperties # NoHandle

\* The representation preset each kind is said to use.
PresetOfKind(kind) ==
    CASE kind \in { "prop-set", "motif" } -> "superposition"
      [] kind = "validation" -> "validation-report"
      [] kind = "symmetry" -> "assembly-symmetry"
      [] kind = "membrane" -> "membrane-orientation"
      [] kind = "empty" -> "none"
      [] OTHER -> "auto"
PresetsAre(f, name) ==
    IF name = "none" THEN f.presets = <<>> /\ f.representation = NoHandle
    ELSE Len(f.presets) = 1 /\ f.presets[1].name = name

\* C20: every apply call takes exactly one representation branch and makes
\* at most one representation-preset call: prop-set and motif use the
\* superposition preset, validation the validation-report preset, symmetry
\* the assembly-symmetry preset, membrane the membrane-orientation preset,
\* empty makes no call and returns no representation, every other kind uses
\* 'auto'; and the result of every kind carries the model, modelProperties,
\* structure and structureProperties handles.
C20_OneBranchPerKind ==
    \A f \in Calls :
        /\ Len(f.presets) <= 1
        /\ PastRepresentation(f) => PresetsAre(f, PresetOfKind(f.p.kind))
        /\ f.pc = "done" => CarriesHandles(f)

\* C20 (amended): as above, except that a motif call uses the superposition
\* preset only when createStructure produced a structure object, and 'auto'
\* otherwise.
C20_OneBranchPerKindWithObject ==
    \A f \in Calls :
        /\ Len(f.presets) <= 1
        /\ PastRepresentation(f) =>
               PresetsAre(f, IF f.p.kind = "motif" /\ ~f.structure.obj THEN "auto"
                             ELSE PresetOfKind(f.p.kind))
        /\ f.pc = "done" => CarriesHandles(f)

\* A motif call whose structure has no object has returned with the 'auto'
\* representation.
C20_Witness ==
    \E f \in Calls :
        /\ f.pc = "done"
        /\ f.p.kind = "motif"
        /\ ~f.structure.obj
        /\ f.representation = "auto"
        /\ CarriesHandles(f)
\* ========================================================================
\* Viewer.loadPdbId / Viewer.loadPdbIds  (specification SpecLoad)
\* ========================================================================

\* Largest number of model URL providers and of requested ids.
MaxProviders == 2
MaxIds == 2

\* What a provider does with an id: provider(pdbId) throws, the load of its
\* URL is rejected, or the load succeeds.
Outcomes == { "throws", "rejects", "ok" }

LoadInit ==
    /\ entry \in { "loadPdbId", "loadPdbIds" }
    /\ \E np \in 0..MaxProviders :
        args \in IF entry = "loadPdbId" THEN SeqsOf([1..np -> Outcomes], 1)
                 ELSE SeqsUpTo([1..np -> Outcomes], MaxIds)
    /\ arg = 1
    /\ provider = 1
    /\ loads = <<>>
    /\ warnings = <<>>
    /\ loaded = <<>>
    /\ resets = 0
    /\ lpc = IF entry = "loadPdbId" THEN "providers" ELSE "ids"

\* The try block around the provider call only.
InTry_ProviderOnly(step) == step = "provider"

\* lines 421-425: provider(pdbId) and the awaited load are both inside try.
InTry(step) == step \in { "provider", "load" }

\* loadPdbId has settled: its caller goes on.
Settle ==
    IF entry = "loadPdbId" THEN lpc' = "done" /\ UNCHANGED arg
    ELSE lpc' = "ids" /\ arg' = arg + 1

\* A step of the loop body failed: warn and go on with the next provider
\* when the failure is caught, reject the promise when it is not.
Fail(step) ==
    IF InTry(step)
    THEN /\ warnings' = Append(warnings, <<arg, provider>>)
         /\ provider' = provider + 1
         /\ lpc' = "providers"
    ELSE /\ lpc' = "rejected"
         /\ UNCHANGED <<warnings, provider>>

\* A loop over the ids that gives up once an id could not be loaded.
NextId_StopsAfterFailure ==
    /\ lpc = "ids"
    /\ arg <= Len(args)
    /\ IF arg > 1 /\ \A k \in 1..Len(loaded) : loaded[k][1] # arg - 1
       THEN /\ arg' = Len(args) + 1
            /\ UNCHANGED <<provider, lpc>>
       ELSE /\ provider' = 1
            /\ lpc' = "providers"
            /\ UNCHANGED arg
    /\ UNCHANGED <<entry, args, loads, warnings, loaded, resets>>
    /\ UNCHANGED notLoad

\* line 432: the next element of args, loadPdbId is called for it.
NextId ==
    /\ lpc = "ids"
    /\ arg <= Len(args)
    /\ provider' = 1
    /\ lpc' = "providers"
    /\ UNCHANGED <<entry, args, arg, loads, warnings, loaded, resets>>
    /\ UNCHANGED notLoad

\* line 435: this.resetCamera(0) after the loop.
ResetCamera ==
    /\ lpc = "ids"
    /\ arg > Len(args)
    /\ resets' = resets + 1
    /\ lpc' = "done"
    /\ UNCHANGED <<entry, args, arg, provider, loads, warnings, loaded>>
    /\ UNCHANGED notLoad

\* lines 420-423: the next provider is called and the load of its URL starts.
TryProvider ==
    /\ lpc = "providers"
    /\ provider <= Len(args[arg])
    /\ IF args[arg][provider] = "throws"
       THEN /\ Fail("provider")
            /\ UNCHANGED <<arg, loads>>
       ELSE /\ loads' = Append(loads, <<arg, provider>>)
            /\ lpc' = "loading"
            /\ UNCHANGED <<arg, provider, warnings>>
    /\ UNCHANGED <<entry, args, loaded, resets>>
    /\ UNCHANGED notLoad

\* lines 423-424: the awaited load succeeds, break.
LoadSucceeds ==
    /\ lpc = "loading"
    /\ args[arg][provider] = "ok"
    /\ loaded' = Append(loaded, <<arg, provider>>)
    /\ Settle
    /\ UNCHANGED <<entry, args, provider, loads, warnings, resets>>
    /\ UNCHANGED notLoad

\* lines 425-427: the awaited load is rejected.
LoadFails ==
    /\ lpc = "loading"
    /\ args[arg][provider] = "rejects"
    /\ Fail("load")
    /\ UNCHANGED <<entry, args, arg, loads, loaded, resets>>
    /\ UNCHANGED notLoad

\* line 420: the provider list is exhausted, loadPdbId returns.
ProvidersExhausted ==
    /\ lpc = "providers"
    /\ provider > Len(args[arg])
    /\ Settle
    /\ UNCHANGED <<entry, args, provider, loads, warnings, loaded, resets>>
    /\ UNCHANGED notLoad

InitLoad == LoadInit /\ CoreIdle /\ ApplyIdle /\ SearchIdle /\ TreeIdle /\ MoreIdle
NextLoad ==
    NextId \/ ResetCamera \/ TryProvider \/ LoadSucceeds \/ LoadFails \/ ProvidersExhausted
SpecLoad == InitLoad /\ [][NextLoad]_vars
\* ------------------------------------------------------------------------
\* Claims about Viewer.loadPdbId
\* ------------------------------------------------------------------------

\* The providers a log names for the id a.
ProvidersIn(log, a) == { log[k][2] : k \in { j \in 1..Len(log) : log[j][1] = a } }
Called(a) == ProvidersIn(loads, a) \cup ProvidersIn(warnings, a)
Sorted(log) ==
    \A j, k \in 1..Len(log) :
        j < k => \/ log[j][1] < log[k][1]
                 \/ log[j][1] = log[k][1] /\ log[j][2] < log[k][2]
\* The first provider whose load of the id succeeds, one past the list if none.
FirstOk(v) ==
    IF \E k \in 1..Len(v) : v[k] = "ok"
    THEN CHOOSE k \in 1..Len(v) : v[k] = "ok" /\ \A j \in 1..(k - 1) : v[j] # "ok"
    ELSE Len(v) + 1
\* loadPdbId for the id a has returned.
Settled(a) == lpc = "done" \/ (lpc # "rejected" /\ arg > a)

\* C15: loadPdbId tries the model URL providers in list order, one at a
\* time, stops at the first provider whose load succeeds and calls no later
\* one; a provider that throws or whose load is rejected is logged and the
\* next one is tried; if every provider fails the promise still resolves and
\* nothing is loaded.
C15_ProvidersInOrder ==
    /\ lpc # "rejected"
    /\ Sorted(loads) /\ Sorted(warnings) /\ Sorted(loaded)
    /\ \A a \in 1..Len(args) :
           LET v == args[a]
               first == FirstOk(v)
           IN  /\ \E k \in 0..Len(v) : Called(a) = 1..k
               /\ \A k \in Called(a) : k <= first
               /\ ProvidersIn(loaded, a) \subseteq { first } \cap (1..Len(v))
               /\ Settled(a) =>
                      /\ Called(a) = 1..(IF first <= Len(v) THEN first ELSE Len(v))
                      /\ ProvidersIn(warnings, a) = 1..(first - 1)
                      /\ ProvidersIn(loaded, a) = { first } \cap (1..Len(v))
                      /\ ProvidersIn(loads, a) = { k \in Called(a) : v[k] # "throws" }

\* loadPdbId has returned although the first provider threw and the load of
\* the second was rejected: both were logged and nothing is loaded.
C15_Witness ==
    /\ entry = "loadPdbId"
    /\ lpc = "done"
    /\ args = << << "throws", "rejects" >> >>
    /\ warnings = << <<1, 1>>, <<1, 2>> >>
    /\ loads = << <<1, 2>> >>
    /\ loaded = <<>>
\* ========================================================================
\* SubmitControls.submitSearch  (specification SpecSearch)
\* ========================================================================

MAX_MOTIF_SIZE == 10

\* Longest selection history.
MaxHistory == 11

\* History entries: loci of the entry 1ABC (two residues of chain A, one
\* residue of chain B) and of another entry.
Residue(asym, seq) == [label_asym_id |-> asym, label_seq_id |-> seq]
HistoryEntry(e, rs) == [entry |-> e, elements |-> rs]
ChainA == HistoryEntry("1ABC", << Residue("A", 10), Residue("A", 11) >>)
ChainB == HistoryEntry("1ABC", << Residue("B", 5) >>)
Foreign == HistoryEntry("2XYZ", << Residue("A", 10) >>)

\* The histories: ChainA only, or ChainA and ChainB in turn, with at most
\* one entry (at position other, if any) taken from the other source entry.
Patterns == { "A", "AB", "BA" }
Pattern(pat, k) ==
    CASE pat = "A" -> ChainA
      [] pat = "AB" -> IF k % 2 = 1 THEN ChainA ELSE ChainB
      [] pat = "BA" -> IF k % 2 = 1 THEN ChainB ELSE ChainA
Histories ==
    { [k \in 1..len |-> IF k = other THEN Foreign ELSE Pattern(pat, k)] :
        len \in 0..MaxHistory, pat \in Patterns, other \in 0..MaxHistory }

\* Set.add with the membership test left out.
SetAdd_Always(s, x) == Append(s, x)

\* pdbId.add(x): a Set keeps one copy of a value, in insertion order.
SetAdd(s, x) == IF \E k \in 1..Len(s) : s[k] = x THEN s ELSE Append(s, x)

\* The entry test accepting two entries.
TooManyEntries_AboveTwo(s) == Len(s) > 2

\* line 96: pdbId.size > 1
TooManyEntries(s) == Len(s) > 1

\* line 100: residueIds.length > MAX_MOTIF_SIZE
TooManyResidues(r) == Len(r) > MAX_MOTIF_SIZE

\* line 81: Math.min(MAX_MOTIF_SIZE, loci.length)
LoopBound(h) == IF MAX_MOTIF_SIZE < Len(h) THEN MAX_MOTIF_SIZE ELSE Len(h)

\* lines 87-93: the first residue of the first element of the loci.
ResidueId(l) ==
    [label_asym_id |-> l.elements[1].label_asym_id, struct_oper_id |-> "1",
     label_seq_id |-> l.elements[1].label_seq_id]

\* pdbId.values().next().value
FirstValue(s) == IF s = <<>> THEN "undefined" ELSE s[1]

\* lines 105-141: the part of the query that depends on the selection.
Query(s, r) == [data |-> FirstValue(s), residue_ids |-> r]

SearchInit ==
    /\ history \in Histories
    /\ pdbId = <<>>
    /\ residueIds = <<>>
    /\ si = 0
    /\ opened = <<>>
    /\ logged = <<>>
    /\ spc = "start"

\* lines 75-81
SubmitSearch ==
    /\ spc = "start"
    /\ pdbId' = <<>>
    /\ residueIds' = <<>>
    /\ si' = 0
    /\ spc' = "loop"
    /\ UNCHANGED <<history, opened, logged>>
    /\ UNCHANGED notSearch

\* lines 81-94: one iteration of the loop.
Collect ==
    /\ spc = "loop"
    /\ si < LoopBound(history)
    /\ pdbId' = SetAdd(pdbId, history[si + 1].entry)
    /\ residueIds' = Append(residueIds, ResidueId(history[si + 1]))
    /\ si' = si + 1
    /\ UNCHANGED <<history, opened, logged, spc>>
    /\ UNCHANGED notSearch

\* lines 96-143: the two guards, then window.open.
Finish ==
    /\ spc = "loop"
    /\ si >= LoopBound(history)
    /\ IF TooManyEntries(pdbId)
       THEN /\ logged' = Append(logged, "motifs can only be extracted from a single model")
            /\ UNCHANGED opened
       ELSE IF TooManyResidues(residueIds)
       THEN /\ logged' = Append(logged, "maximum motif size is 10 residues")
            /\ UNCHANGED opened
       ELSE /\ opened' = Append(opened, Query(pdbId, residueIds))
            /\ UNCHANGED logged
    /\ spc' = "done"
    /\ UNCHANGED <<history, pdbId, residueIds, si>>
    /\ UNCHANGED notSearch

InitSearch == SearchInit /\ CoreIdle /\ ApplyIdle /\ LoadIdle /\ TreeIdle /\ MoreIdle
NextSearch == SubmitSearch \/ Collect \/ Finish
SpecSearch == InitSearch /\ [][NextSearch]_vars
\* ------------------------------------------------------------------------
\* Claims about SubmitControls.submitSearch
\* ------------------------------------------------------------------------

\* The history entries submitSearch considers, and the source entries of a
\* list of history entries.
Considered == SubSeq(history, 1, LoopBound(history))
EntriesOf(h) == { h[k].entry : k \in 1..Len(h) }
Returned == spc = "done"

\* C16: submitSearch opens no search query and throws nothing whenever the
\* selected loci it considers come from more than one source entry: the call
\* returns with window.open not called, and it can always take its next step.
C16_AbortsOnSeveralEntries ==
    /\ Cardinality(EntriesOf(Considered)) > 1 => opened = <<>>
    /\ Returned /\ Cardinality(EntriesOf(Considered)) > 1 =>
           logged = << "motifs can only be extracted from a single model" >>
    /\ ~Returned => ENABLED NextSearch

\* submitSearch has returned on a history of three entries, the second from
\* another source entry: it warned and opened nothing.
C16_Witness ==
    /\ Returned
    /\ Len(history) = 3
    /\ history[2] = Foreign
    /\ history[1] = ChainA /\ history[3] = ChainA
    /\ Len(logged) = 1
    /\ opened = <<>>
\* C17: submitSearch aborts on an oversized target list: when the selection
\* history holds more than MAX_MOTIF_SIZE entries, a warning is logged and
\* no search query is opened.
C17_AbortsOnOversizedHistory ==
    Returned /\ Len(history) > MAX_MOTIF_SIZE =>
        /\ opened = <<>>
        /\ Len(logged) = 1

\* C18: on a history of n entries, 1 <= n <= MAX_MOTIF_SIZE, all from one
\* source entry, submitSearch opens one query whose residue_ids are the first
\* residues of the n history entries in history order and whose data field
\* is that entry id; the Set of entry ids has size 1.
C18_QueryFromHistory ==
    /\ Returned
    /\ Len(history) \in 1..MAX_MOTIF_SIZE
    /\ Cardinality(EntriesOf(history)) = 1
    => /\ Len(opened) = 1
       /\ Len(opened[1].residue_ids) = Len(history)
       /\ \A k \in 1..Len(history) :
              /\ opened[1].residue_ids[k].label_asym_id = history[k].elements[1].label_asym_id
              /\ opened[1].residue_ids[k].label_seq_id = history[k].elements[1].label_seq_id
       /\ opened[1].data \in EntriesOf(history)
       /\ Len(pdbId) = 1
       /\ logged = <<>>

\* submitSearch has returned on three selections across chains A and B of
\* 1ABC: the query names 1ABC and the three residues A 10, B 5, A 10.
C18_Witness ==
    /\ Returned
    /\ history = << ChainA, ChainB, ChainA >>
    /\ Len(opened) = 1
    /\ opened[1].data = "1ABC"
    /\ Len(opened[1].residue_ids) = 3
    /\ opened[1].residue_ids[2].label_asym_id = "B"
    /\ pdbId = << "1ABC" >>
\* ========================================================================
\* getDecorator(plugin, root)  (specification SpecTree)
\* ========================================================================

\* Largest number of nodes of the state tree.
MaxNodes == 4

\* The state trees: node 1 is the tree's root, every other node hangs under
\* a node created before it; each node's transformer is a decorator or not.
Trees ==
    UNION { { [parent |-> ps, decorator |-> ds] :
                ps \in { q \in [1..nn -> 0..nn] :
                            q[1] = 0 /\ \A k \in 2..nn : q[k] \in 1..(k - 1) },
                ds \in [1..nn -> BOOLEAN] } :
            nn \in 1..MaxNodes }
Nodes(t) == 1..Len(t.parent)

\* tree.children.get(ref)
Children(t, x) == { y \in Nodes(t) : t.parent[y] = x }

\* Every transform taken for a decorator.
IsDecorator_Always(t, x) == TRUE

\* tree.transforms.get(child).transformer.definition.isDecorator
IsDecorator(t, x) == t.decorator[x]

TreeInit ==
    /\ tree \in Trees
    /\ root \in Nodes(tree)
    /\ cur = root
    /\ depth = 1
    /\ decorator = 0
    /\ gpc = "call"

\* lines 48-53: the only child is a decorator, getDecorator(plugin, child).
Descend ==
    /\ gpc = "call"
    /\ Cardinality(Children(tree, cur)) = 1
    /\ \E child \in Children(tree, cur) :
        /\ IsDecorator(tree, child)
        /\ cur' = child
    /\ depth' = depth + 1
    /\ UNCHANGED <<tree, root, decorator, gpc>>
    /\ UNCHANGED notTree

\* lines 50 and 55: return root, handed back unchanged by every caller.
ReturnRoot ==
    /\ gpc = "call"
    /\ \/ Cardinality(Children(tree, cur)) # 1
       \/ \E child \in Children(tree, cur) : ~IsDecorator(tree, child)
    /\ decorator' = cur
    /\ gpc' = "done"
    /\ UNCHANGED <<tree, root, cur, depth>>
    /\ UNCHANGED notTree

InitTree == TreeInit /\ CoreIdle /\ ApplyIdle /\ LoadIdle /\ SearchIdle /\ MoreIdle
NextTree == Descend \/ ReturnRoot
\* The recursion is synchronous code: a call that can take a step takes it.
SpecTree == InitTree /\ [][NextTree]_vars /\ WF_vars(NextTree)

\* ------------------------------------------------------------------------
\* Claims about getDecorator
\* ------------------------------------------------------------------------

\* x has exactly one child y, and y is a decorator transform.
Link(t, x, y) == Children(t, x) = {y} /\ t.decorator[y]
\* S, read in ascending order, is a chain of links that starts at r.
IsChainFrom(t, r, S) ==
    /\ r \in S
    /\ \A x \in S : x >= r
    /\ \A x \in S : x = r \/ \E w \in S : Link(t, w, x)
\* The last node of the maximal chain from r.
ChainEnd(t, r) ==
    CHOOSE x \in Nodes(t) :
        /\ \E S \in SUBSET Nodes(t) : IsChainFrom(t, r, S) /\ x \in S
        /\ ~\E y \in Nodes(t) : Link(t, x, y)

\* C19: getDecorator(root) terminates on every finite state tree and returns
\* the last node of the maximal chain from root in which each node has
\* exactly one child and that child is a decorator transform; it returns
\* root itself when root has no child, several children, or an only child
\* that is not a decorator.
C19_DecoratorChainEnd ==
    /\ [](gpc = "done" =>
            /\ decorator = ChainEnd(tree, root)
            /\ (~\E y \in Nodes(tree) : Link(tree, root, y)) => decorator = root
            /\ depth <= Len(tree.parent))
    /\ <>(gpc = "done")

\* getDecorator has returned the third node of a four-node tree: a chain of
\* two decorators under the root, with a further child that is none.
C19_Witness ==
    /\ gpc = "done"
    /\ root = 1
    /\ tree.parent = <<0, 1, 2, 3>>
    /\ tree.decorator = <<FALSE, TRUE, TRUE, FALSE>>
    /\ decorator = 3
    /\ depth = 3
\* C21: when a motif preset supplies a color, every selection expression
\* handed to the representation preset, target and hidden whole-entry
\* expressions alike, carries exactly that color, for every numeric color
\* value; when no color is supplied the colors are the ones
\* createSelectionExpressions set.
C21_MotifColor ==
    \A f \in Calls :
        TookMotifBranch(f) =>
            LET es == Applied(f).selectionExpressions
            IN  \A k \in 1..Len(es) :
                    es[k].color = IF f.p.color # NoColor THEN f.p.color
                                  ELSE Expression(es[k].label, es[k].whole, es[k].target).color
\* ========================================================================
\* The colour lookup of the prop-set branch  (specification SpecColors)
\* ========================================================================

\* Largest number of entries of p.representation.
MaxReprs == 2

\* An absent chain label is "undefined"; the empty label is falsy too.
NoAsym == "undefined"
NoRange == [defined |-> FALSE, beg |-> 0, end |-> 0]
SeqRange(b, e) == [defined |-> TRUE, beg |-> b, end |-> e]
ColorTarget(asym, range) == [label_asym_id |-> asym, label_seq_range |-> range]

\* The target lists of a colour representation.
ColorTargetLists ==
    { <<>>,
      << ColorTarget("A", SeqRange(1, 2)) >>,
      << ColorTarget("A", SeqRange(2, 3)), ColorTarget("B", SeqRange(3, 3)) >>,
      << ColorTarget(NoAsym, SeqRange(1, 3)), ColorTarget("A", SeqRange(3, 2)) >>,
      << ColorTarget("B", NoRange), ColorTarget("", SeqRange(1, 1)) >>,
      << ColorTarget("A", SeqRange(1, 3)), ColorTarget("A", SeqRange(2, 2)) >> }
ColorProp(nm, v, ts) == [name |-> nm, value |-> v, targets |-> ts]
Representations ==
    { ColorProp("color", v, ts) : v \in { 0, 7 }, ts \in ColorTargetLists }
    \cup { ColorProp("label", 9, << ColorTarget("A", SeqRange(1, 3)) >>) }

\* What an earlier use left in the lookup.
StaleColors == [chains |-> { "A", "C" }, entries |-> { << "A", 1, 5 >>, << "C", 4, 5 >> }]

\* colors[chain] = new Map() when the chain has none yet
WithMap(c, chain) == [c EXCEPT !.chains = @ \cup { chain }]

\* Map.set keeping the value the key already has.
MapSet_KeepFirst(c, chain, num, v) ==
    IF \E e \in c.entries : e[1] = chain /\ e[2] = num THEN c
    ELSE [c EXCEPT !.entries = @ \cup { << chain, num, v >> }]

\* colors[chain].set(num, colorValue)
MapSet(c, chain, num, v) ==
    [c EXCEPT !.entries =
        { e \in @ : ~(e[1] = chain /\ e[2] = num) } \cup { << chain, num, v >> }]

\* lines 185-187: for (const num of residues) colors[chain].set(num, colorValue)
RECURSIVE SetAll(_, _, _, _)
SetAll(c, chain, residues, v) ==
    IF residues = <<>> THEN c
    ELSE SetAll(MapSet(c, chain, Head(residues), v), chain, Tail(residues), v)

\* lines 179-187: one target of a colour representation.
ColorOneTarget(c, target, v) ==
    IF target.label_asym_id \in { NoAsym, "" } THEN c
    ELSE LET residues == IF target.label_seq_range.defined
                         THEN toRange(target.label_seq_range.beg, target.label_seq_range.end)
                         ELSE <<>>
         IN  SetAll(WithMap(c, target.label_asym_id), target.label_asym_id, residues, v)

ColorsInit ==
    /\ representation \in SeqsUpTo(Representations, MaxReprs)
    /\ colors = StaleColors
    /\ ri = 0
    /\ ti = 0
    /\ cpc = "start"

\* line 174: colors = Object.create(null)
ResetColors ==
    /\ cpc = "start"
    /\ colors' = [chains |-> {}, entries |-> {}]
    /\ ri' = 1
    /\ ti' = 1
    /\ cpc' = "loop"
    /\ UNCHANGED representation
    /\ UNCHANGED notColor

\* lines 175-176 and 178: the representation is no colour, or its targets
\* are used up: on to the next one.
NextRepresentation ==
    /\ cpc = "loop"
    /\ ri <= Len(representation)
    /\ \/ representation[ri].name # "color"
       \/ ti > Len(representation[ri].targets)
    /\ ri' = ri + 1
    /\ ti' = 1
    /\ UNCHANGED <<representation, colors, cpc>>
    /\ UNCHANGED notColor

\* lines 178-188: the next target of a colour representation.
VisitTarget ==
    /\ cpc = "loop"
    /\ ri <= Len(representation)
    /\ representation[ri].name = "color"
    /\ ti <= Len(representation[ri].targets)
    /\ colors' = ColorOneTarget(colors, representation[ri].targets[ti], representation[ri].value)
    /\ ti' = ti + 1
    /\ UNCHANGED <<representation, ri, cpc>>
    /\ UNCHANGED notColor

\* line 190: the outer loop is over.
LookupBuilt ==
    /\ cpc = "loop"
    /\ ri > Len(representation)
    /\ cpc' = "done"
    /\ UNCHANGED <<representation, colors, ri, ti>>
    /\ UNCHANGED notColor

InitColors == ColorsInit /\ RestColorIdle
NextColors == ResetColors \/ NextRepresentation \/ VisitTarget \/ LookupBuilt
SpecColors == InitColors /\ [][NextColors]_vars

\* ------------------------------------------------------------------------
\* Claims about the colour lookup
\* ------------------------------------------------------------------------

ChainLabels == { "A", "B", "C", "", NoAsym }
ResidueNumbers == 0..5
\* The (representation, target) positions that colour residue num of chain.
Colouring(chain, num) ==
    { rt \in (1..Len(representation)) \X (1..2) :
        /\ representation[rt[1]].name = "color"
        /\ rt[2] <= Len(representation[rt[1]].targets)
        /\ LET t == representation[rt[1]].targets[rt[2]]
           IN  /\ t.label_asym_id = chain
               /\ chain \notin { NoAsym, "" }
               /\ t.label_seq_range.defined
               /\ t.label_seq_range.beg <= num
               /\ num <= t.label_seq_range.end }
Before(a, b) == a[1] < b[1] \/ (a[1] = b[1] /\ a[2] < b[2])
LastOf(S) == CHOOSE a \in S : \A b \in S : b = a \/ Before(b, a)

\* C22: once the lookup is built, colors[chain].get(n) is the value of the
\* last colour representation (in representation order, then target order)
\* with a target of that chain whose label_seq_range contains n; a residue
\* no such target covers has no entry; a target without label_asym_id adds
\* nothing; a target without label_seq_range adds no residue entry; and
\* nothing of an earlier lookup is left.
C22_ColourLookup ==
    cpc = "done" =>
        /\ \A chain \in ChainLabels, num \in ResidueNumbers :
               LET S == Colouring(chain, num)
                   got == { e \in colors.entries : e[1] = chain /\ e[2] = num }
               IN  IF S = {} THEN got = {}
                   ELSE got = { << chain, num, representation[LastOf(S)[1]].value >> }
        /\ \A e \in colors.entries : e[1] \in ChainLabels /\ e[2] \in ResidueNumbers
        /\ colors.chains \cap { NoAsym, "" } = {}

\* Two colour representations were applied: 7 to A 1-3 and A 2, then 0 to
\* A 2-3 and B 3; residue A 1 keeps 7, A 2 and A 3 ended with 0, and the
\* stale entries are gone.
C22_Witness ==
    /\ cpc = "done"
    /\ Len(representation) = 2
    /\ representation[1].value = 7 /\ representation[2].value = 0
    /\ colors.entries = { << "A", 1, 7 >>, << "A", 2, 0 >>, << "A", 3, 0 >>, << "B", 3, 0 >> }

\* ------------------------------------------------------------------------
\* C23: determineAssemblyId changes nothing but the assemblyId field of the
\* preset it receives. Every step of a call leaves the target list and each
\* target in it, the kind, label, color and modelIndex fields, and the
\* metadata table as they were, on the skip path, the match path, the
\* no-match path and the exception path alike; the preset the caller handed
\* in is recovered from the preset after the call by restoring assemblyId.
\* ------------------------------------------------------------------------
OnlyAssemblyIdAssigned ==
    /\ [p' EXCEPT !.assemblyId = p.assemblyId] = p
    /\ [p' EXCEPT !.assemblyId = p0.assemblyId] = p0
    /\ traj' = traj

C23_OnlyAssemblyIdChanges == [][OnlyAssemblyIdAssigned]_vars

\* A call that scanned the table, found no row for its targets and assigned
\* the default id to a preset with targets.
C23_Witness ==
    /\ pc = "done"
    /\ ~raised
    /\ p0.targets # <<>>
    /\ traj.rows # <<>>
    /\ p.assemblyId # p0.assemblyId
    /\ p.targets = p0.targets

\* ========================================================================
\* The feature branch of RcsbPreset.apply: which loci the focus receives
\* ========================================================================

\* An optional field of a target: <<>> when the key is absent, <<v>> when
\* it holds v.
Absent == <<>>
Some(v) == <<v>>
\* JavaScript truthiness of an optional number and of an optional string.
TruthyNumber(o) == o # Absent /\ o[1] # 0
TruthyString(o) == o # Absent /\ o[1] # ""

FocusTargets ==
    [ label_asym_id : { Absent, Some(""), Some("A") },
      auth_seq_id   : { Absent, Some(0), Some(5) },
      label_seq_id  : { Absent, Some(0), Some(5) },
      label_comp_id : { Absent, Some(""), Some("ALA") } ]

\* What targetToLoci may resolve: the residues of the loci, in order.
ResolvedLoci == { <<>>, <<0>>, <<5>>, <<0, 1>>, <<5, 6>> }

\* line 249: p.target.label_asym_id && !p.target.auth_seq_id &&
\*           !p.target.label_seq_id && !p.target.label_comp_id
ChainMode(t) ==
    /\ TruthyString(t.label_asym_id)
    /\ ~TruthyNumber(t.auth_seq_id)
    /\ ~TruthyNumber(t.label_seq_id)
    /\ ~TruthyString(t.label_comp_id)

\* StructureElement.Loci.firstResidue(loci)
firstResidue(l) == IF l = <<>> THEN <<>> ELSE <<l[1]>>

NotFocused == [set |-> FALSE, loci |-> <<>>]
Focused(l) == [set |-> TRUE, loci |-> l]

FocusInit ==
    /\ \E k \in FeatureKinds, a \in { Undef, <<"1">> }, t \in FocusTargets :
        feature = [kind |-> k, assemblyId |-> a, target |-> t]
    /\ featureLoci = <<>>
    /\ chainMode = FALSE
    /\ focusTarget = <<>>
    /\ structureFocus = NotFocused
    /\ cameraFocus = NotFocused
    /\ fpc = "start"

\* lines 247-249: let loci = targetToLoci(...); const chainMode = ...
ResolveFeature ==
    /\ fpc = "start"
    /\ featureLoci' \in ResolvedLoci
    /\ chainMode' = ChainMode(feature.target)
    /\ fpc' = IF NeedsFallback(IF featureLoci' = <<>> THEN "empty" ELSE "some",
                               feature.assemblyId)
              THEN "fallback" ELSE "choose"
    /\ UNCHANGED <<feature, focusTarget, structureFocus, cameraFocus>>
    /\ UNCHANGED notFocus

\* lines 251-258: await updateStructure(...); loci = targetToLoci(...)
ResolveInModel ==
    /\ fpc = "fallback"
    /\ featureLoci' \in ResolvedLoci
    /\ fpc' = "choose"
    /\ UNCHANGED <<feature, chainMode, focusTarget, structureFocus, cameraFocus>>
    /\ UNCHANGED notFocus

\* line 259: const target = chainMode ? loci : firstResidue(loci)
ChooseFocusTarget ==
    /\ fpc = "choose"
    /\ focusTarget' = IF chainMode THEN featureLoci ELSE firstResidue(featureLoci)
    /\ fpc' = IF feature.kind = "feature-density" THEN "volume" ELSE "focus"
    /\ UNCHANGED <<feature, featureLoci, chainMode, structureFocus, cameraFocus>>
    /\ UNCHANGED notFocus

\* lines 261-263: await initVolumeStreaming(...) of a feature-density preset
StreamDensity ==
    /\ fpc = "volume"
    /\ fpc' = "focus"
    /\ UNCHANGED <<feature, featureLoci, chainMode, focusTarget, structureFocus, cameraFocus>>
    /\ UNCHANGED notFocus

\* line 265: plugin.managers.structure.focus.setFromLoci(target)
SetFromLoci ==
    /\ fpc = "focus"
    /\ structureFocus' = Focused(focusTarget)
    /\ fpc' = "camera"
    /\ UNCHANGED <<feature, featureLoci, chainMode, focusTarget, cameraFocus>>
    /\ UNCHANGED notFocus

\* line 266: plugin.managers.camera.focusLoci(target)
FocusLoci ==
    /\ fpc = "camera"
    /\ cameraFocus' = Focused(focusTarget)
    /\ fpc' = "done"
    /\ UNCHANGED <<feature, featureLoci, chainMode, focusTarget, structureFocus>>
    /\ UNCHANGED notFocus

InitFocus == FocusInit /\ RestFocusIdle
NextFocus ==
    \/ ResolveFeature \/ ResolveInModel \/ ChooseFocusTarget
    \/ StreamDensity \/ SetFromLoci \/ FocusLoci
SpecFocus == InitFocus /\ [][NextFocus]_vars

\* ------------------------------------------------------------------------
\* Claims about the focus of a feature preset
\* ------------------------------------------------------------------------

\* The target names a chain and has none of the three residue fields. An
\* empty string names neither a chain nor a component; a residue number is
\* there whenever the key holds a number, 0 included.
NamesChainOnly(t) ==
    /\ TruthyString(t.label_asym_id)
    /\ t.auth_seq_id = Absent
    /\ t.label_seq_id = Absent
    /\ ~TruthyString(t.label_comp_id)

\* C24: for a 'feature' or 'feature-density' preset the structure focus and
\* the camera focus receive the same loci: the whole resolved loci when the
\* target names a chain (label_asym_id) and has no auth_seq_id, no
\* label_seq_id and no label_comp_id, and the first residue of the resolved
\* loci in every other case.
C24_FocusLoci ==
    fpc = "done" =>
        /\ structureFocus.set
        /\ cameraFocus.set
        /\ structureFocus.loci = cameraFocus.loci
        /\ structureFocus.loci =
               IF NamesChainOnly(feature.target) THEN featureLoci
               ELSE firstResidue(featureLoci)

\* ========================================================================
\* initVolumeStreaming(plugin, structure, props)
\* ========================================================================

MaxCalls == 3

\* The keys of the collapsed state that are followed here.
CollapsedKeys == { "selection", "custom", "volume" }

\* The tags of the VolumeStreamingVisual cells the action creates.
Channels == { "2fo-fc", "fo-fc(+ve)", "fo-fc(-ve)" }

\* props?.overrideRadius === void 0
NoRadius == 0 - 1
NoProps == [defined |-> FALSE, overrideRadius |-> NoRadius, hiddenChannels |-> <<>>]
\* The props of the callers: none (kind 'density'), or a radius and a
\* channel list (kind 'feature-density', line 262).
VolumeProps ==
    { NoProps } \cup
    [ defined : { TRUE },
      overrideRadius : { NoRadius, 0, 3 },
      hiddenChannels : { <<>>, <<"fo-fc(+ve)", "fo-fc(-ve)">>, <<"em">> } ]

NoStreaming == [radius |-> NoRadius, hidden |-> {}]

\* A guard that applies the action on every call.
NeedsAction_Always(found) == TRUE

\* line 364: if (!volumeRoot)
NeedsAction(found) == ~found

\* Where a call goes on after the action (lines 370 and 379).
AfterAction(pr) ==
    IF pr.defined /\ pr.overrideRadius # NoRadius THEN "radius"
    ELSE IF pr.defined /\ Len(pr.hiddenChannels) > 0 THEN "hide"
    ELSE "collapse"
AfterRadius(pr) ==
    IF pr.defined /\ Len(pr.hiddenChannels) > 0 THEN "hide" ELSE "collapse"

VolumeInit ==
    /\ vstructure \in [hasParent : BOOLEAN]
    /\ hasVolumeRoot \in BOOLEAN
    /\ applied = 0
    /\ streaming = NoStreaming
    /\ collapsed \in [CollapsedKeys -> BOOLEAN]
    /\ vprops = NoProps
    /\ rootAtCall = hasVolumeRoot
    /\ collapsed0 = collapsed
    /\ vcalls = 0
    /\ vpc = "idle"

\* lines 360-364: the call, its early return, and the lookup of the root tag
CallInitVolumeStreaming ==
    /\ vpc = "idle"
    /\ vcalls < MaxCalls
    /\ vprops' \in VolumeProps
    /\ collapsed0' = collapsed
    /\ rootAtCall' = hasVolumeRoot
    /\ IF ~vstructure.hasParent
       THEN /\ vcalls' = vcalls + 1
            /\ vpc' = "idle"
       ELSE /\ vpc' = IF NeedsAction(hasVolumeRoot) THEN "action" ELSE "collapse"
            /\ UNCHANGED vcalls
    /\ UNCHANGED <<vstructure, hasVolumeRoot, applied, streaming, collapsed>>
    /\ UNCHANGED notVolume

\* lines 365-367: await plugin.runTask(state.applyAction(InitVolumeStreaming,
\* ...)); the action attaches the tagged root and the streaming node.
ApplyInitVolumeStreaming ==
    /\ vpc = "action"
    /\ hasVolumeRoot' = TRUE
    /\ applied' = applied + 1
    /\ streaming' = NoStreaming
    /\ vpc' = AfterAction(vprops)
    /\ UNCHANGED <<vstructure, collapsed, vprops, rootAtCall, collapsed0, vcalls>>
    /\ UNCHANGED notVolume

\* lines 370-377: the radius of the streaming node is overridden
UpdateRadius ==
    /\ vpc = "radius"
    /\ streaming' = [streaming EXCEPT !.radius = vprops.overrideRadius]
    /\ vpc' = AfterRadius(vprops)
    /\ UNCHANGED <<vstructure, hasVolumeRoot, applied, collapsed, vprops, rootAtCall, collapsed0, vcalls>>
    /\ UNCHANGED notVolume

\* lines 379-386: the visuals whose tag is listed are hidden
HideChannels ==
    /\ vpc = "hide"
    /\ streaming' = [streaming EXCEPT !.hidden =
           { c \in Channels : ArrIndexOf(vprops.hiddenChannels, c) # -1 }]
    /\ vpc' = "collapse"
    /\ UNCHANGED <<vstructure, hasVolumeRoot, applied, collapsed, vprops, rootAtCall, collapsed0, vcalls>>
    /\ UNCHANGED notVolume

\* lines 389-392: collapsed.next({ ...collapsed.value, volume: false })
ExpandVolumePanel ==
    /\ vpc = "collapse"
    /\ collapsed' = [collapsed EXCEPT !["volume"] = FALSE]
    /\ vcalls' = vcalls + 1
    /\ vpc' = "idle"
    /\ UNCHANGED <<vstructure, hasVolumeRoot, applied, streaming, vprops, rootAtCall, collapsed0>>
    /\ UNCHANGED notVolume

\* part_001 line 366 and the panel headers: the user collapses or expands
\* a panel between two calls.
TogglePanel ==
    /\ vpc = "idle"
    /\ \E k \in CollapsedKeys : collapsed' = [collapsed EXCEPT ![k] = ~collapsed[k]]
    /\ UNCHANGED <<vstructure, hasVolumeRoot, applied, streaming, vprops, rootAtCall, collapsed0, vcalls, vpc>>
    /\ UNCHANGED notVolume

InitVolume == VolumeInit /\ RestVolumeIdle
NextVolume ==
    \/ CallInitVolumeStreaming \/ ApplyInitVolumeStreaming \/ UpdateRadius
    \/ HideChannels \/ ExpandVolumePanel \/ TogglePanel
SpecVolume == InitVolume /\ [][NextVolume]_vars

\* ------------------------------------------------------------------------
\* Claims about initVolumeStreaming
\* ------------------------------------------------------------------------

\* A step in which a call returns.
CallReturns == vcalls' = vcalls + 1

\* What one step of a call may do.
VolumeStep ==
    \* the action is applied only while the subtree has no root, and once
    /\ applied' # applied => ~hasVolumeRoot /\ applied = 0 /\ applied' = 1
    \* radius and channels are touched only by a call that found no root
    /\ streaming' # streaming => ~rootAtCall /\ applied' = 1
    \* a returning call on a parented structure has expanded the volume
    \* panel and left the other keys as they were when it began
    /\ (CallReturns /\ vstructure.hasParent) =>
           collapsed' = [collapsed0 EXCEPT !["volume"] = FALSE]
    \* a call on a structure without a parent cell changes nothing
    /\ (CallReturns /\ ~vstructure.hasParent) =>
           UNCHANGED <<vstructure, hasVolumeRoot, applied, streaming, collapsed>>
    \* no other step of a call writes the collapsed state
    /\ (collapsed' # collapsed /\ vpc # "idle") => CallReturns

\* C25: initVolumeStreaming is idempotent per structure. The action, and the
\* radius override and channel hiding after it, run only when the subtree
\* of the structure has no volume-streaming root yet, so any number of
\* calls on one structure apply the action at most once; every call on a
\* structure with a parent cell sets collapsed.volume to false and leaves
\* every other key as it was; a call on a structure without a parent cell
\* changes nothing.
C25_VolumeStreamingOnce == [][VolumeStep]_vars

\* Three calls on a parented structure have returned, the first of which
\* applied the action, overrode the radius and hid the two difference maps.
C25_Witness ==
    /\ vcalls = MaxCalls
    /\ vstructure.hasParent
    /\ applied = 1
    /\ streaming.radius = 0
    /\ streaming.hidden = { "fo-fc(+ve)", "fo-fc(-ve)" }
    /\ ~collapsed["volume"]
    /\ collapsed["custom"]

\* ========================================================================
\* Viewer.select, selectSegment, Viewer.clearSelection, getLociFromRange
\* ========================================================================

MaxList == 2

\* hierarchy.current.structures: a structure whose data has no units yet,
\* then two structures of the models m1 and m2, each with the residues
\* (label_asym_id, label_seq_id) it holds.
Hierarchy ==
    << [id |-> "m1", units |-> FALSE, residues |-> { <<"A", 1>> }],
       [id |-> "m1", units |-> TRUE, residues |-> { <<"A", 1>>, <<"A", 2>> }],
       [id |-> "m2", units |-> TRUE, residues |-> { <<"A", 1>>, <<"B", 2>> }] >>

ModelIds == { "m1", "m2", "mX" }
AsymIds == { "A", "B" }
SeqIds == { 1, 2 }
Modes == { "select", "hover" }
Modifiers == { "add", "set" }
ListedResidues == [modelId : ModelIds, asymId : AsymIds, position : SeqIds]

\* getStructureRefWithModelId: the first structure with units whose model
\* id is modelId, as its index in the hierarchy; 0 for undefined.
RECURSIVE StructureRefFrom(_, _, _)
StructureRefFrom(structures, modelId, k) ==
    IF k > Len(structures) THEN 0
    ELSE IF ~structures[k].units THEN StructureRefFrom(structures, modelId, k + 1)
    ELSE IF structures[k].id = modelId THEN k
    ELSE StructureRefFrom(structures, modelId, k + 1)
getStructureRefWithModelId(structures, modelId) ==
    StructureRefFrom(structures, modelId, 1)

NoLoci == [defined |-> FALSE, structure |-> 0, residues |-> {}]

\* getLociFromRange: undefined without a structure, else the residues of
\* chain asymId whose label_seq_id is one of begin, begin + 1, ..., end.
getLociFromRange(modelId, asymId, b, e) ==
    LET ref == getStructureRefWithModelId(Hierarchy, modelId)
    IN  IF ref = 0 THEN NoLoci
        ELSE [defined |-> TRUE, structure |-> ref,
              residues |-> { r \in Hierarchy[ref].residues :
                               /\ r[1] = asymId
                               /\ b <= r[2]
                               /\ LoopCond(r[2], e) }]

\* The elements a loci stands for.
ElementsOf(l) == { <<l.structure, r[1], r[2]>> : r \in l.residues }

\* managers.structure.selection.fromLoci(modifier, loci): 'add' unites the
\* loci with the selection, 'set' replaces the selection of its structure.
fromLoci(sel, modifier, l) ==
    IF modifier = "add" THEN sel \cup ElementsOf(l)
    ELSE { x \in sel : x[1] # l.structure } \cup ElementsOf(l)

\* The managers as one value: selection, highlights and the calls made.
Managers(sel, hl, ops) == [selection |-> sel, highlights |-> hl, ops |-> ops]

\* selectSegment(modelId, asymId, begin, end, mode, modifier)
selectSegment(m, modelId, asymId, b, e, mode, modifier) ==
    LET l == getLociFromRange(modelId, asymId, b, e)
    IN  IF ~l.defined THEN m
        ELSE IF mode = "select"
        THEN Managers(fromLoci(m.selection, modifier, l), m.highlights,
                      Append(m.ops, [call |-> "fromLoci", modifier |-> modifier, loci |-> l]))
        ELSE IF mode = "hover"
        THEN Managers(m.selection, m.highlights \cup ElementsOf(l),
                      Append(m.ops, [call |-> "highlight", modifier |-> "", loci |-> l]))
        ELSE m

\* clearSelection(mode, options): options is NoOptions or a model id and a
\* chain label.
NoOptions == [defined |-> FALSE, modelId |-> "", labelAsymId |-> ""]
ClearOptions ==
    { NoOptions } \cup [defined : { TRUE }, modelId : ModelIds, labelAsymId : AsymIds]
clearSelection(m, mode, options) ==
    IF mode = "select"
    THEN IF ~options.defined
         THEN Managers({}, m.highlights,
                       Append(m.ops, [call |-> "deselectAll", modifier |-> "", loci |-> NoLoci]))
         ELSE LET ref == getStructureRefWithModelId(Hierarchy, options.modelId)
                  l == [defined |-> TRUE, structure |-> ref,
                        residues |-> { r \in Hierarchy[ref].residues :
                                         r[1] = options.labelAsymId }]
              IN  IF ref = 0 THEN m
                  ELSE Managers(m.selection \ ElementsOf(l), m.highlights,
                                Append(m.ops, [call |-> "deselect", modifier |-> "", loci |-> l]))
    ELSE IF mode = "hover"
    THEN Managers(m.selection, {},
                  Append(m.ops, [call |-> "clearHighlights", modifier |-> "", loci |-> NoLoci]))
    ELSE m

\* A list form that never clears.
ClearsFirst_Never(modifier) == FALSE

\* line 478: if (args[2] === 'set')
ClearsFirst(modifier) == modifier = "set"

\* lines 480-482: forEach(r => selectSegment(r.modelId, r.asymId,
\* r.position, r.position, args[1], 'add')), from the k-th residue on.
RECURSIVE ForEachResidue(_, _, _, _)
ForEachResidue(m, list, mode, k) ==
    IF k > Len(list) THEN m
    ELSE ForEachResidue(
             selectSegment(m, list[k].modelId, list[k].asymId,
                           list[k].position, list[k].position, mode, "add"),
             list, mode, k + 1)

\* select(selection, mode, modifier): the three-argument form.
selectList(m, list, mode, modifier) ==
    ForEachResidue(
        IF ClearsFirst(modifier) THEN clearSelection(m, "select", NoOptions) ELSE m,
        list, mode, 1)

ManagersBefore(sel, hl) == Managers(sel, hl, <<>>)

\* Every element of a structure that has units.
LoadedElements ==
    UNION { { <<k, r[1], r[2]>> : r \in Hierarchy[k].residues } :
            k \in { j \in 1..Len(Hierarchy) : Hierarchy[j].units } }

\* A call finds the selection and the highlights that earlier calls and the
\* user's picking left: any elements of the loaded structures.
SelectInit ==
    /\ selection \in SUBSET LoadedElements
    /\ highlights \in { {}, { <<2, "A", 1>>, <<3, "B", 2>> } }
    /\ scall = [op |-> "none"]
    /\ sel0 = selection
    /\ sops = <<>>
    /\ scount = 0

\* The managers after a call are what the call returned.
Becomes(m) ==
    /\ selection' = m.selection
    /\ highlights' = m.highlights
    /\ sops' = m.ops
    /\ sel0' = selection
    /\ scount' = scount + 1
    /\ UNCHANGED notSelect

\* lines 477-482: select(selection, mode, modifier)
SelectResidues ==
    /\ scount = 0
    /\ \E list \in SeqsUpTo(ListedResidues, MaxList), mode \in Modes, modifier \in Modifiers :
        /\ scall' = [op |-> "select", form |-> "list", list |-> list,
                     mode |-> mode, modifier |-> modifier]
        /\ Becomes(selectList(ManagersBefore(selection, highlights), list, mode, modifier))

\* lines 483-484: select(modelId, asymId, position, mode, modifier)
SelectPosition ==
    /\ scount = 0
    /\ \E r \in ListedResidues, mode \in Modes, modifier \in Modifiers :
        /\ scall' = [op |-> "select", form |-> "position", list |-> <<r>>,
                     mode |-> mode, modifier |-> modifier]
        /\ Becomes(selectSegment(ManagersBefore(selection, highlights), r.modelId, r.asymId,
                                 r.position, r.position, mode, modifier))

\* lines 485-486: select(modelId, asymId, begin, end, mode, modifier)
SelectRange ==
    /\ scount = 0
    /\ \E modelId \in ModelIds, asymId \in AsymIds, b \in SeqIds, e \in SeqIds,
          mode \in Modes, modifier \in Modifiers :
        /\ scall' = [op |-> "select", form |-> "range",
                     list |-> << [modelId |-> modelId, asymId |-> asymId, position |-> b],
                                 [modelId |-> modelId, asymId |-> asymId, position |-> e] >>,
                     mode |-> mode, modifier |-> modifier]
        /\ Becomes(selectSegment(ManagersBefore(selection, highlights), modelId, asymId,
                                 b, e, mode, modifier))

\* lines 499-515: clearSelection(mode, options)
ClearSelection ==
    /\ scount = 0
    /\ \E mode \in Modes, options \in ClearOptions :
        /\ scall' = [op |-> "clearSelection", form |-> "", list |-> <<>>,
                     mode |-> mode, modifier |-> ""]
        /\ Becomes(clearSelection(ManagersBefore(selection, highlights), mode, options))

InitSelect == SelectInit /\ RestSelectIdle
NextSelect == SelectResidues \/ SelectPosition \/ SelectRange \/ ClearSelection
SpecSelect == InitSelect /\ [][NextSelect]_vars

\* ------------------------------------------------------------------------
\* Claims about Viewer.select and Viewer.clearSelection
\* ------------------------------------------------------------------------

ListCall(modifier) ==
    /\ scall.op = "select"
    /\ scall.form = "list"
    /\ scall.mode = "select"
    /\ scall.modifier = modifier

\* The listed residues whose modelId resolves to a loaded structure, as the
\* elements of that structure they stand for.
Listed(list) ==
    UNION { ElementsOf(getLociFromRange(list[k].modelId, list[k].asymId,
                                        list[k].position, list[k].position)) :
            k \in 1..Len(list) }

\* The positions of the list whose modelId matches a loaded structure.
RECURSIVE Resolving(_, _)
Resolving(list, k) ==
    IF k > Len(list) THEN <<>>
    ELSE LET l == getLociFromRange(list[k].modelId, list[k].asymId,
                                   list[k].position, list[k].position)
         IN  (IF l.defined THEN << l >> ELSE <<>>) \o Resolving(list, k + 1)

\* The loci of the fromLoci calls of the log, from its k-th call on.
RECURSIVE Added(_, _)
Added(ops, k) ==
    IF k > Len(ops) THEN <<>>
    ELSE (IF ops[k].call = "fromLoci" /\ ops[k].modifier = "add"
          THEN << ops[k].loci >> ELSE <<>>) \o Added(ops, k + 1)

\* C26: select with a residue list, mode 'select' and modifier 'set' first
\* clears the whole selection and then adds each listed residue in list
\* order, so that the selection is exactly the listed residues that resolve
\* to a loaded model; with modifier 'add' the previous selection is kept and
\* the listed residues are added; a residue whose modelId matches no loaded
\* structure is skipped: it causes no call and no error.
C26_SelectList ==
    /\ ListCall("set") =>
           /\ sops # <<>>
           /\ sops[1].call = "deselectAll"
           /\ Len(sops) = 1 + Len(Resolving(scall.list, 1))
           /\ Added(sops, 2) = Resolving(scall.list, 1)
           /\ selection = Listed(scall.list)
    /\ ListCall("add") =>
           /\ Added(sops, 1) = Resolving(scall.list, 1)
           /\ Len(sops) = Len(Resolving(scall.list, 1))
           /\ selection = sel0 \cup Listed(scall.list)

\* A 'set' call on a selection of model m2 whose list names a residue of
\* model m1 and one of a model that is not loaded.
C26_Witness ==
    /\ ListCall("set")
    /\ sel0 = { <<3, "A", 1>> }
    /\ scount = 1
    /\ Len(scall.list) = 2
    /\ scall.list[1].modelId = "mX"
    /\ selection = { <<2, "A", 2>> }

\* C27: select and clearSelection called with mode 'hover' never change the
\* structure selection, whatever the argument form and the modifier: the
\* selected residues after the call are those before it.
C27_HoverKeepsSelection ==
    (scall.op \in { "select", "clearSelection" } /\ scall.mode = "hover") =>
        selection = sel0

\* ------------------------------------------------------------------------
\* Claims about Viewer.loadPdbIds
\* ------------------------------------------------------------------------

\* The ids a log names.
IdsIn(log) == { log[k][1] : k \in 1..Len(log) }
\* Log entries are in argument order.
InIdOrder(log) == \A j, k \in 1..Len(log) : j < k => log[j][1] <= log[k][1]

\* C28: loadPdbIds loads the requested ids strictly one after another in
\* argument order: the load of id k+1 starts only after loadPdbId for id k
\* has settled. A failure to load one id does not keep the later ids from
\* being tried, and the camera is reset exactly once, after the last id has
\* settled.
C28_IdsOneByOne ==
    entry = "loadPdbIds" =>
        /\ lpc # "rejected"
        \* argument order, and nothing of a later id before the current one
        /\ InIdOrder(loads) /\ InIdOrder(warnings) /\ InIdOrder(loaded)
        /\ IdsIn(loads) \cup IdsIn(warnings) \cup IdsIn(loaded) \subseteq 1..arg
        /\ arg <= Len(args) + 1
        \* every id before the current one has settled: its providers were
        \* tried up to the first success, whatever became of the ids before
        /\ \A a \in 1..Len(args) :
               a < arg => Called(a) = 1..(IF FirstOk(args[a]) <= Len(args[a])
                                          THEN FirstOk(args[a]) ELSE Len(args[a]))
        \* a load in flight is the load of the current id, the last one started
        /\ lpc = "loading" => /\ loads # <<>>
                              /\ loads[Len(loads)] = <<arg, provider>>
        \* one reset, once all ids have settled
        /\ resets = (IF lpc = "done" THEN 1 ELSE 0)
        /\ lpc = "done" => arg = Len(args) + 1

\* Two ids were requested; no provider could load the first, the second was
\* loaded, and the camera was reset.
C28_Witness ==
    /\ entry = "loadPdbIds"
    /\ lpc = "done"
    /\ args = << << "rejects", "throws" >>, << "throws", "ok" >> >>
    /\ loaded = << <<2, 2>> >>
    /\ resets = 1

\* ========================================================================
\* SubmitControls: toggleExchanges, moveHistory, modifyHistory
\* ========================================================================

MaxShown == 3

\* `exchanges-${idx}`
ExchangesName(idx) == <<"exchanges-">> \o NatToString(idx)

\* line 203: Math.min(history.length, 10) entries are rendered, numbered
\* from 1 (historyEntry(history[i], i + 1)).
ShownEntries(h) == 1..Min(Len(h), 10)

\* A toggle that opens the panel whatever is open.
Toggled_AlwaysOpens(current, idx) == ExchangesName(idx)

\* line 163: this.state.action === `exchanges-${idx}` ? void 0
\*                                                    : `exchanges-${idx}`
Toggled(current, idx) ==
    IF current = ExchangesName(idx) THEN Undef ELSE ExchangesName(idx)

NoHandler == [op |-> "none", idx |-> 0]

\* The rearrangements of a history: the same entries in any order.
Rearranged(h) ==
    { s \in [1..Len(h) -> { h[k] : k \in 1..Len(h) }] :
        \A j, k \in 1..Len(h) : j # k => s[j] # s[k] }
\* The history without its k-th entry.
Without(h, k) == SubSeq(h, 1, k - 1) \o SubSeq(h, k + 1, Len(h))

ExchangeInit ==
    /\ action = Undef
    /\ isBusy = FALSE
    /\ additions = <<>>
    /\ handler = NoHandler
    /\ handler0 = NoHandler
    /\ action0 = Undef
    /\ action00 = Undef
    /\ ecalls = <<>>

\* A handler has run: what it was, and what the state was before it.
Ran(op, idx, calls) ==
    /\ handler' = [op |-> op, idx |-> idx]
    /\ handler0' = handler
    /\ action0' = action
    /\ action00' = action0
    /\ ecalls' = calls
    /\ UNCHANGED notExchange

\* lines 61-64: the selection manager added an entry to the history; the
\* component is rendered again.
AdditionsHistoryUpdated ==
    /\ Len(additions) < MaxShown
    /\ \E e \in (1..MaxShown) \ { additions[k] : k \in 1..Len(additions) } :
        additions' = Append(additions, e)
    /\ Ran("additionsHistoryUpdated", 0, << "forceUpdate" >>)
    /\ UNCHANGED <<action, isBusy>>

\* lines 66-68: this.setState({ isBusy: v })
BusyChanged ==
    /\ isBusy' = ~isBusy
    /\ Ran("isBusy", 0, << "setState" >>)
    /\ UNCHANGED <<action, additions>>

\* line 163, from the toggle button of a rendered entry (line 191), which
\* is disabled while busy.
ToggleExchanges ==
    /\ ~isBusy
    /\ \E idx \in ShownEntries(additions) :
        /\ action' = Toggled(action, idx)
        /\ Ran("toggleExchanges", idx, << "setState" >>)
    /\ UNCHANGED <<isBusy, additions>>

\* lines 169-172: moveHistory(e, direction)
MoveHistory ==
    /\ Len(additions) > 1
    /\ \E idx \in ShownEntries(additions) :
        /\ action' = Undef
        /\ additions' \in Rearranged(additions)
        /\ Ran("moveHistory", idx, << "setState", "modifyHistory" >>)
    /\ UNCHANGED isBusy

\* lines 174-177: modifyHistory(e, 'remove', idx)
ModifyHistory ==
    /\ \E idx \in ShownEntries(additions) :
        /\ action' = Undef
        /\ additions' = Without(additions, idx)
        /\ Ran("modifyHistory", idx, << "setState", "modifyHistory" >>)
    /\ UNCHANGED isBusy

InitExchange == ExchangeInit /\ RestExchangeIdle
NextExchange ==
    \/ AdditionsHistoryUpdated \/ BusyChanged \/ ToggleExchanges
    \/ MoveHistory \/ ModifyHistory
SpecExchange == InitExchange /\ [][NextExchange]_vars

\* ------------------------------------------------------------------------
\* Claims about the exchanges panels
\* ------------------------------------------------------------------------

\* The entries whose exchanges panel the state names as open.
OpenPanels(a) == { idx \in 1..MAX_MOTIF_SIZE : a = ExchangesName(idx) }

\* C29: the 'action' state names at most one open exchanges panel.
\* toggleExchanges(i) opens panel i when another panel or none is open,
\* closing the other one, and closes it when panel i is open, so that two
\* consecutive toggleExchanges(i) restore the state 'none open'; moveHistory
\* and modifyHistory reset the state to no open panel before they change
\* the history.
C29_OneOpenPanel ==
    /\ Cardinality(OpenPanels(action)) <= 1
    /\ action = Undef \/ OpenPanels(action) # {}
    /\ handler.op = "toggleExchanges" =>
           /\ OpenPanels(action) =
                  IF handler.idx \in OpenPanels(action0) THEN {}
                  ELSE { handler.idx }
           /\ (handler0 = handler /\ OpenPanels(action00) = {}) =>
                  action = action00
    /\ handler.op \in { "moveHistory", "modifyHistory" } =>
           /\ action = Undef
           /\ ecalls = << "setState", "modifyHistory" >>

\* No panel was open, and toggleExchanges(2) ran twice: panel 2 was opened
\* and closed again.
C29_Witness ==
    /\ handler = [op |-> "toggleExchanges", idx |-> 2]
    /\ handler0 = handler
    /\ action00 = Undef
    /\ action0 = ExchangesName(2)
    /\ action = Undef

\* ========================================================================
\* export.ts: extractStructureDataFromState and encodeStructureData
\* ========================================================================

MaxCells == 3

\* structure.model.entryId of a cell: an id, an id that holds a dash and
\* starts with a number, and the empty id.
EntryIds ==
    { << "1", "A", "B", "C" >>, << "2", "-", "1", "A", "B", "C" >>, <<>> }

\* An entry-id-only name: the position of the cell is left out.
StructureName_EntryIdOnly(k, entryId) == entryId

\* line 74: `${i + 1}-${structure.model.entryId}` for the 0-based i = k - 1
StructureName(k, entryId) == NatToString((k - 1) + 1) \o << "-" >> \o entryId

\* line 84: `${key}.cif`
FileName(key) == key \o << ".", "c", "i", "f" >>

\* content[key] = value on an object kept as its entries in insertion order:
\* an existing key keeps its place and takes the new value.
ObjectSet(obj, key, v) ==
    IF \E k \in 1..Len(obj) : obj[k].key = key
    THEN [k \in 1..Len(obj) |->
             IF obj[k].key = key THEN [key |-> key, value |-> v] ELSE obj[k]]
    ELSE Append(obj, [key |-> key, value |-> v])

ExportInit ==
    /\ cells \in SeqsUpTo(EntryIds, MaxCells)
    /\ extracted = <<>>
    /\ archive = <<>>
    /\ xi = 0
    /\ xpc = "extract"

\* lines 61-76: the loop body for cells[i]; the merged structure is the one
\* of that cell.
ExtractStructure ==
    /\ xpc = "extract"
    /\ xi < Len(cells)
    /\ extracted' = ObjectSet(extracted, StructureName(xi + 1, cells[xi + 1]),
                               [cell |-> xi + 1, entryId |-> cells[xi + 1]])
    /\ xi' = xi + 1
    /\ UNCHANGED <<cells, archive, xpc>>
    /\ UNCHANGED notExport

\* line 77: return content; line 82: const structures = ...
ExtractReturns ==
    /\ xpc = "extract"
    /\ xi >= Len(cells)
    /\ xi' = 0
    /\ xpc' = "encode"
    /\ UNCHANGED <<cells, extracted, archive>>
    /\ UNCHANGED notExport

\* lines 83-89: the loop body for the next entry of Object.entries
EncodeStructure ==
    /\ xpc = "encode"
    /\ xi < Len(extracted)
    /\ LET filename == FileName(extracted[xi + 1].key)
       IN  archive' = ObjectSet(archive, filename,
                                [block |-> filename,
                                 cell |-> extracted[xi + 1].value.cell])
    /\ xi' = xi + 1
    /\ UNCHANGED <<cells, extracted, xpc>>
    /\ UNCHANGED notExport

\* line 90: return content
EncodeReturns ==
    /\ xpc = "encode"
    /\ xi >= Len(extracted)
    /\ xpc' = "done"
    /\ UNCHANGED <<cells, extracted, archive, xi>>
    /\ UNCHANGED notExport

InitExport == ExportInit /\ RestExportIdle
NextExport == ExtractStructure \/ ExtractReturns \/ EncodeStructure \/ EncodeReturns
SpecExport == InitExport /\ [][NextExport]_vars

\* ------------------------------------------------------------------------
\* Claims about the export helper
\* ------------------------------------------------------------------------

\* The decimal numeral of k, then a dash, the entry id and ".cif".
ArchiveName(k, entryId) ==
    IntToString(k) \o << "-" >> \o entryId \o << ".", "c", "i", "f" >>

\* C30: encodeStructureData returns exactly one archive entry per root
\* structure cell: the entry of the i-th cell, counting from 1, is named
\* '<i>-<entryId>.cif' and holds the structure of that cell, so that the
\* names are pairwise distinct and no structure overwrites another even
\* when cells share an entry id; an empty state yields an empty archive.
C30_OneEntryPerCell ==
    xpc = "done" =>
        /\ Len(archive) = Len(cells)
        /\ \A k \in 1..Len(archive) :
               /\ archive[k].key = ArchiveName(k, cells[k])
               /\ archive[k].value.cell = k
        /\ \A j, k \in 1..Len(archive) : j # k => archive[j].key # archive[k].key
        /\ cells = <<>> => archive = <<>>

\* Three cells, the first two of the same entry, have been encoded.
C30_Witness ==
    /\ xpc = "done"
    /\ Len(cells) = MaxCells
    /\ cells[1] = cells[2]
    /\ cells[1] # <<>>
    /\ Len(archive) = MaxCells

====
